---- MODULE Spec2Model ----
(***************************************************************************)
(* TEMOA run configuration (src/temoa_model/temoa_config.py): the PLY      *)
(* lexer of the configuration language, the validation and queue           *)
(* population done by TemoaConfig.build, and the next_mga / next_moo /     *)
(* next_mgpa scenario queues.                                              *)
(*                                                                         *)
(* Text is a sequence of one-character strings.  Offsets (lexpos, the      *)
(* 'index' of an error span) are 0-based as in Python; the character at    *)
(* offset p of s is s[p+1].  A Python value that may be None is modelled   *)
(* as None (the empty tuple) or Some(v) (the one-element tuple).           *)
(***************************************************************************)
EXTENDS Integers, Sequences, FiniteSets, TLC

VARIABLES
  pc,             \* where build() / the driver is: "lex", "lexed", "check", "populate", "convert", "built", "failed"
  exc,            \* the exception that ended build(), "" when none
  text,           \* lexer.lexdata: the configuration text
  lexer,          \* the PLY lexer object: lexpos, lineno, lexstate, lexstatestack, level
  error,          \* TemoaConfig.__error: the list of error spans
  cfg,            \* the public fields of TemoaConfig (RunConfig)
  todo,           \* __mga_todo, __moo_todo, __mgpa_todo
  done,           \* __mga_done, __moo_done, __mgpa_done
  exported,       \* the db_2_dat calls made by build, as <<ifile, ofile>>
  hist,           \* what the driver has seen: base scenario, names enqueued by build, results of next_*
  input,          \* what the run started from: the items of the configuration text, or the configuration lexing left
  disk,           \* the file system: the files that exist, whether the log folder can be written, the log written
  stderr,         \* what build() wrote to sys.stderr
  db_or_dat,      \* the local db_or_dat of build(): True means the input is a database
  conv,           \* one db_2_dat call: the database read, the chunks written to ofile, the place in table_list
  prev,           \* the builds of a driver that builds several texts: what the earlier builds gave, the texts still to build
  stdout,         \* sys.stdout and the file build() opens on os.devnull: the stream in place, the state of the sink
  thread          \* the driver threads: where each is in its call of next_*, the names its calls took

vars == <<pc, exc, text, lexer, error, cfg, todo, done, exported, hist, input, disk, stderr, db_or_dat, conv, prev, stdout, thread>>

(***************************************************************************)
(* Bounds of the model.                                                    *)
(***************************************************************************)
MaxIter  == 3   \* largest iteration count drawn for mga_iter / mgpa_iter
MaxCaps  == 2   \* largest cap count drawn for moo_ncaps / mgpa_ncaps
MaxCalls == 5   \* calls of next_* the driver makes after build

(***************************************************************************)
(* Python values.                                                          *)
(***************************************************************************)
None == << >>
Some(v) == <<v>>
Val(o) == o[1]

\* Python truth of an int-or-None field: "if self.mga_iter:".
Truthy(o) == o # None /\ Val(o) # 0

Techniques == {"mga", "moo", "mgpa"}

\* All sequences over S of length at most n.
RECURSIVE SeqsUpTo(_, _)
SeqsUpTo(S, n) ==
  IF n = 0 THEN {<< >>}
  ELSE LET shorter == SeqsUpTo(S, n - 1)
       IN shorter \cup {Append(q, x) : q \in shorter, x \in S}

DigitChars == <<"0", "1", "2", "3", "4", "5", "6", "7", "8", "9">>

\* str(i) for a non-negative int: its decimal digits.
RECURSIVE str(_)
str(i) == IF i < 10 THEN <<DigitChars[i + 1]>>
          ELSE str(i \div 10) \o <<DigitChars[(i % 10) + 1]>>

\* range(n) as the sequence 0, 1, ..., n-1.
range(n) == [k \in 1..n |-> k - 1]

\* The concatenation of a sequence of sequences.
RECURSIVE Flatten(_)
Flatten(ss) == IF ss = << >> THEN << >> ELSE Head(ss) \o Flatten(Tail(ss))


\* s.index(x) as a 1-based position: the first k with s[k] = x (0 when absent).
FirstIndex(s, x) == IF \E k \in 1..Len(s) : s[k] = x
                    THEN CHOOSE k \in 1..Len(s) : s[k] = x /\ \A j \in 1..(k - 1) : s[j] # x
                    ELSE 0

\* s.rfind(c) as a 1-based position: the last k with s[k] = c (0 when absent).
LastIndex(s, c) == IF \E k \in 1..Len(s) : s[k] = c
                   THEN CHOOSE k \in 1..Len(s) : s[k] = c /\ \A j \in (k + 1)..Len(s) : s[j] # c
                   ELSE 0

\* os.path.splitext(p): <<root, ext>>, ext starting at the last dot of the last
\* path component unless that component holds only leading dots before it.
splitext(p) ==
  LET sepIndex == LastIndex(p, "/")
      dotIndex == LastIndex(p, ".")
  IN IF dotIndex > sepIndex /\ \E k \in (sepIndex + 1)..(dotIndex - 1) : p[k] # "."
     THEN <<SubSeq(p, 1, dotIndex - 1), SubSeq(p, dotIndex, Len(p))>>
     ELSE <<p, << >> >>

dot_dat_ext == <<".", "d", "a", "t">>
mga_infix   == <<"_", "m", "g", "a", "_">>
moo_infix   == <<"_", "m", "o", "o", "_">>

(***************************************************************************)
(* Characters and the regular expressions of the lexer rules.  PLY joins   *)
(* the rules of a state into one alternation in the order the rule         *)
(* functions are defined and matches it with Python's re at lexpos: the    *)
(* first rule that matches wins, and within a rule quantifiers are greedy  *)
(* and backtrack.  Each operator below gives, for one shape of pattern,    *)
(* the end offset of the match re finds at offset p of s, or NoMatch.      *)
(***************************************************************************)
Digits      == {"0", "1", "2", "3", "4", "5", "6", "7", "8", "9"}
Letters     == {"a", "b", "c", "d", "e", "f", "g", "h", "i", "j", "k", "l", "m", "n", "o", "p", "q", "r", "s", "t", "u", "v", "w", "x", "y", "z",
                "A", "B", "C", "D", "E", "F", "G", "H", "I", "J", "K", "L", "M", "N", "O", "P", "Q", "R", "S", "T", "U", "V", "W", "X", "Y", "Z"}
WordChars   == Letters \cup Digits \cup {"_"}                   \* \w
SpaceChars  == {" ", "\t", "\n", "\r", "\f"}                    \* \s
SepChars    == SpaceChars \cup {"="}                            \* [\s\=]
NumChars    == Digits \cup {"."}                                \* [\.\d]
FileChars   == WordChars \cup {"-", "\\", "/", ":", ".", "~"}   \* [-\\\/\:\.\~\w]
PathChars   == FileChars \cup {" "}                             \* [-\\\/\:\.\~\w\ ]

\* t_ANY_ignore = '[ \t]' is PLY's set of skipped characters, not a pattern:
\* the bracket characters belong to it.
t_ANY_ignore == {"[", " ", "\t", "]"}

NoMatch == 0 - 1

\* The character at offset p, "" outside the text (a member of no class).
CharAt(s, p) == IF 0 <= p /\ p < Len(s) THEN s[p + 1] ELSE ""

\* s[p:q] of Python.
Slice(s, p, q) == SubSeq(s, p + 1, q)

\* The end of the longest run of characters of class C that starts at p.
RECURSIVE RunEnd(_, _, _)
RunEnd(s, p, C) == IF CharAt(s, p) \in C THEN RunEnd(s, p + 1, C) ELSE p

\* The literal w stands at offset p.
HasLit(s, p, w) == p + Len(w) <= Len(s) /\ Slice(s, p, p + Len(w)) = w

\* \b at offset p: exactly one of the characters around p is a word character.
WordBoundary(s, p) == (CharAt(s, p - 1) \in WordChars) # (CharAt(s, p) \in WordChars)

Max(S) == CHOOSE x \in S : \A y \in S : y <= x

\* key[\s\=]+ : the end of the separator run, which no later part gives back
\* unless stated.
re_key_sep(s, p, key) ==
  LET q == p + Len(key)
      r == RunEnd(s, q, SepChars)
  IN IF HasLit(s, p, key) /\ r > q THEN r ELSE NoMatch

\* key\b
re_flag(s, p, key) ==
  IF HasLit(s, p, key) /\ WordBoundary(s, p + Len(key)) THEN p + Len(key) ELSE NoMatch

\* key[\s\=]+C+ for a class C that holds no separator character.
re_key_run(s, p, key, C) ==
  LET q == re_key_sep(s, p, key)
      r == RunEnd(s, q, C)
  IN IF q # NoMatch /\ r > q THEN r ELSE NoMatch

\* key[\s\=]+\w+\b : the word run is taken whole, and \b holds at its end.
re_key_word(s, p, key) == re_key_run(s, p, key, WordChars)

\* key[\s\=]+(a1|a2|...)\b : the first alternative, in the order written, that
\* stands after the separator and ends at a word boundary.
re_key_enum(s, p, key, alts) ==
  LET q  == re_key_sep(s, p, key)
      ok == {k \in 1..Len(alts) : HasLit(s, q, alts[k]) /\ WordBoundary(s, q + Len(alts[k]))}
  IN IF q # NoMatch /\ ok # {}
     THEN q + Len(alts[CHOOSE k \in ok : \A j \in ok : k <= j])
     ELSE NoMatch

\* key[\s\=]+[-\\\/\:\.\~\w]+(e1|e2|...)\b : the class is greedy, so the match
\* is the one whose extension starts latest, after at least one class character.
re_key_file(s, p, key, exts) ==
  LET q  == re_key_sep(s, p, key)
      r  == RunEnd(s, q, FileChars)
      ms == {m \in (q + 1)..r : \E k \in 1..Len(exts) :
                HasLit(s, m, exts[k]) /\ WordBoundary(s, m + Len(exts[k]))}
  IN IF q # NoMatch /\ ms # {}
     THEN LET m == Max(ms)
              k == CHOOSE k \in 1..Len(exts) :
                     HasLit(s, m, exts[k]) /\ WordBoundary(s, m + Len(exts[k]))
          IN m + Len(exts[k])
     ELSE NoMatch

\* key[\s\=]+[-\\\/\:\.\~\w\ ]+\b : the longest run of class characters that
\* ends at a word boundary.  Giving separator blanks back to the class adds no
\* match: a boundary inside or at the end of the separator run needs a word
\* character after it, and then the full separator run matches as well.
re_key_path(s, p, key) ==
  LET q  == re_key_sep(s, p, key)
      r  == RunEnd(s, q, PathChars)
      es == {e \in (q + 1)..r : WordBoundary(s, e)}
  IN IF q # NoMatch /\ es # {} THEN Max(es) ELSE NoMatch

\* key[\s\=]+\{
re_key_brace(s, p, key) ==
  LET q == re_key_sep(s, p, key)
  IN IF q # NoMatch /\ CharAt(s, q) = "{" THEN q + 1 ELSE NoMatch

\* \#.* : '.' is every character but "\n".
re_comment(s, p) ==
  IF CharAt(s, p) = "#" THEN RunEnd(s, p + 1, {s[k] : k \in 1..Len(s)} \ {"\n"}) ELSE NoMatch

\* (\r\n)+ : the end of the run of "\r\n" pairs that starts at p.
RECURSIVE CrLfEnd(_, _)
CrLfEnd(s, p) == IF CharAt(s, p) = "\r" /\ CharAt(s, p + 1) = "\n" THEN CrLfEnd(s, p + 2) ELSE p

\* \n+|(\r\n)+|\r+ : the alternatives are tried in this order.
re_newline(s, p) ==
  IF CharAt(s, p) = "\n" THEN RunEnd(s, p, {"\n"})
  ELSE IF CrLfEnd(s, p) > p THEN CrLfEnd(s, p)
  ELSE IF CharAt(s, p) = "\r" THEN RunEnd(s, p, {"\r"})
  ELSE NoMatch

\* \}
re_rbrace(s, p) == IF CharAt(s, p) = "}" THEN p + 1 ELSE NoMatch

(***************************************************************************)
(* The Python string and number functions the rule functions call.         *)
(***************************************************************************)
\* s.replace(a, b) for single characters.
replace(s, a, b) == [k \in 1..Len(s) |-> IF s[k] = a THEN b ELSE s[k]]

\* s.split(sep) for a single character: the pieces between the separators,
\* empty pieces included.
RECURSIVE split_on(_, _)
split_on(s, sep) ==
  LET k == FirstIndex(s, sep)
  IN IF k = 0 THEN <<s>>
     ELSE <<SubSeq(s, 1, k - 1)>> \o split_on(SubSeq(s, k + 1, Len(s)), sep)

\* s.split(): the pieces between runs of white space, none of them empty.
RECURSIVE split(_)
split(s) ==
  LET a == RunEnd(s, 0, SpaceChars)
      b == RunEnd(s, a, {s[k] : k \in 1..Len(s)} \ SpaceChars)
  IN IF a >= Len(s) THEN << >>
     ELSE <<Slice(s, a, b)>> \o split(Slice(s, b, Len(s)))

\* sep.join(parts)
RECURSIVE join(_, _)
join(sep, parts) ==
  IF parts = << >> THEN << >>
  ELSE IF Len(parts) = 1 THEN parts[1]
  ELSE parts[1] \o sep \o join(sep, Tail(parts))

\* The working directory abspath joins a relative path to.
cwd == <<"/", "w">>

\* os.path.normpath on the components of a path, left to right.
RECURSIVE norm_comps(_, _, _)
norm_comps(comps, new, rooted) ==
  IF comps = << >> THEN new
  ELSE LET c == Head(comps)
       IN IF c = << >> \/ c = <<".">>
          THEN norm_comps(Tail(comps), new, rooted)
          ELSE IF c # <<".", ".">> \/ (~rooted /\ new = << >>)
                  \/ (new # << >> /\ new[Len(new)] = <<".", ".">>)
          THEN norm_comps(Tail(comps), Append(new, c), rooted)
          ELSE norm_comps(Tail(comps), SubSeq(new, 1, Len(new) - 1), rooted)

\* os.path.normpath (POSIX): empty and "." components dropped, ".." resolved,
\* exactly two leading slashes kept.
normpath(p) ==
  LET slashes == IF CharAt(p, 0) # "/" THEN 0
                 ELSE IF CharAt(p, 1) = "/" /\ CharAt(p, 2) # "/" THEN 2 ELSE 1
      body    == join(<<"/">>, norm_comps(split_on(p, "/"), << >>, slashes > 0))
      path    == [k \in 1..slashes |-> "/"] \o body
  IN IF path = << >> THEN <<".">> ELSE path

\* os.path.abspath (POSIX).
abspath(p) == IF CharAt(p, 0) = "/" THEN normpath(p) ELSE normpath(cwd \o <<"/">> \o p)

\* The value of a digit character.
digit(c) == CHOOSE d \in 0..9 : DigitChars[d + 1] = c

\* int(s) for a string of digits.
RECURSIVE int(_)
int(s) == IF s = << >> THEN 0 ELSE 10 * int(SubSeq(s, 1, Len(s) - 1)) + digit(s[Len(s)])

\* float(s) accepts a string of digits and dots when it has at most one dot
\* and at least one digit; otherwise it raises ValueError.
float_ok(s) ==
  /\ Cardinality({k \in 1..Len(s) : s[k] = "."}) <= 1
  /\ \E k \in 1..Len(s) : s[k] \in Digits

\* A decimal n / 10^e with no trailing zero in its fraction.
RECURSIVE decimal(_, _)
decimal(n, e) == IF e > 0 /\ n % 10 = 0 THEN decimal(n \div 10, e - 1) ELSE [num |-> n, exp |-> e]

\* float(s) for an accepted string: the number its digits and dot denote.
float(s) ==
  LET dot  == FirstIndex(s, ".")
      ip   == IF dot = 0 THEN s ELSE SubSeq(s, 1, dot - 1)
      fp   == IF dot = 0 THEN << >> ELSE SubSeq(s, dot + 1, Len(s))
  IN decimal(int(ip \o fp), Len(fp))

(***************************************************************************)
(* TemoaConfig.__init__: the fields before any directive is read.          *)
(***************************************************************************)
DefaultPathToData == <<"/", "d", "a", "t", "a", "_", "f", "i", "l", "e", "s">>
DefaultPathToLogs == DefaultPathToData \o <<"/", "d", "e", "b", "u", "g", "_", "l", "o", "g", "s">>

InitCfg ==
  [ dot_dat        |-> << >>,
    output         |-> None,
    scenario       |-> None,
    saveEXCEL      |-> FALSE,
    myopic         |-> FALSE,
    myopic_periods |-> 0,
    KeepMyopicDBs  |-> FALSE,
    saveDUALS      |-> FALSE,
    saveTEXTFILE   |-> FALSE,
    how_to_cite    |-> None,
    version        |-> FALSE,
    neos           |-> FALSE,
    method         |-> None,
    threads        |-> None,
    tee            |-> FALSE,
    keepPyomoLP    |-> FALSE,
    mga_slack      |-> None,
    mga_iter       |-> None,
    mga_method     |-> None,
    moo_f1         |-> None,
    moo_f2         |-> None,
    moo_c          |-> None,
    moo_ncaps      |-> None,
    mgpa_f1        |-> None,
    mgpa_f2        |-> None,
    mgpa_c         |-> None,
    mgpa_ncaps     |-> None,
    mgpa_slack1    |-> None,
    mgpa_slack2    |-> None,
    mgpa_iter      |-> None,
    mgpa_method    |-> None,
    path_to_data   |-> DefaultPathToData,
    path_to_logs   |-> DefaultPathToLogs,
    abort_temoa    |-> FALSE,
    solver         |-> None ]

InitQueues == [mga |-> << >>, moo |-> << >>, mgpa |-> << >>]

InitLexer == [lexpos |-> 0, lineno |-> 1, lexstate |-> "INITIAL",
              lexstatestack |-> << >>, level |-> None]

InitHist == [base |-> None, enq |-> InitQueues, rets |-> InitQueues]

\* No db_2_dat call is under way.
NoConv == [db |-> << >>, f |-> << >>, table |-> 0]

\* A driver that builds one text.
NoPrev == [got |-> << >>, texts |-> << >>]

\* sys.stdout at the start of build(): the original stream; os.devnull is not open.
InitStdout == [stream |-> "__stdout__", sink |-> "unopened"]

\* The driver threads: each is outside a call of next_* and has taken no name.
Threads == {1, 2}
Idle    == [at |-> "idle", T |-> "", item |-> None]
NoCalls == [t \in Threads |-> [call |-> Idle, took |-> << >>]]

\* The contents of a file: as it was given, the whole export of a database,
\* or what a failed export had written when it stopped.
Given        == [of |-> << >>, whole |-> TRUE]
Export(ifile) == [of |-> ifile, whole |-> TRUE]
Partial(ifile) == [of |-> ifile, whole |-> FALSE]

\* A file system with the files F, and nothing written to a log yet.
Disk(F, logdir) == [files |-> F, data |-> [f \in F |-> Given], logdir |-> logdir, log |-> << >>]

(***************************************************************************)
(* The lexer rules, lines 392-563.  lexre[state] lists the rules of a      *)
(* state in the order PLY tries them: the rule functions that name the     *)
(* state (or ANY) in the order of their definition.                        *)
(***************************************************************************)
lexre ==
  [ INITIAL |-> <<"t_ANY_COMMENT", "t_dot_dat", "t_output", "t_scenario",
                "t_saveEXCEL", "t_saveDUALS", "t_myopic",
                "t_myopic_periods", "t_keep_myopic_databases",
                "t_saveTEXTFILE", "t_path_to_data", "t_path_to_logs",
                "t_how_to_cite", "t_version", "t_neos", "t_solver",
                "t_method", "t_threads", "t_tee",
                "t_keep_pyomo_lp_file", "t_begin_mga", "t_begin_moo",
                "t_begin_mgpa", "t_ANY_newline">>,
    mga     |-> <<"t_ANY_COMMENT", "t_mga_mgaslack", "t_mga_mgaiter",
                "t_mga_mgamethod", "t_mga_end", "t_ANY_newline">>,
    moo     |-> <<"t_ANY_COMMENT", "t_moo_moof1", "t_moo_moof2", "t_moo_mooc",
                "t_moo_mooncaps", "t_moo_end", "t_ANY_newline">>,
    mgpa    |-> <<"t_ANY_COMMENT", "t_mgpa_mgpaf1", "t_mgpa_mgpaf2", "t_mgpa_mgpac",
                "t_mgpa_mgpancaps", "t_mgpa_mgpaslack1",
                "t_mgpa_mgpaslack2", "t_mgpa_mgpaiter",
                "t_mgpa_mgpamethod", "t_mgpa_end", "t_ANY_newline">> ]

\* The pattern in the docstring of each rule function: the end of its match at
\* offset p of s, or NoMatch.
rule_re(rule, s, p) ==
  CASE rule = "t_ANY_COMMENT" ->
         re_comment(s, p)
    [] rule = "t_dot_dat" ->
         re_key_file(s, p, <<"-", "-", "i", "n", "p", "u", "t">>,
                                 <<<<".", "d", "a", "t">>, <<".", "d", "b">>, <<".", "s", "q", "l", "i", "t", "e">>>>)
    [] rule = "t_output" ->
         re_key_file(s, p, <<"-", "-", "o", "u", "t", "p", "u", "t">>,
                                 <<<<".", "d", "b">>, <<".", "s", "q", "l", "i", "t", "e">>>>)
    [] rule = "t_scenario" ->
         re_key_word(s, p, <<"-", "-", "s", "c", "e", "n", "a", "r", "i", "o">>)
    [] rule = "t_saveEXCEL" ->
         re_flag(s, p, <<"-", "-", "s", "a", "v", "e", "E", "X", "C", "E", "L">>)
    [] rule = "t_saveDUALS" ->
         re_flag(s, p, <<"-", "-", "s", "a", "v", "e", "D", "U", "A", "L", "S">>)
    [] rule = "t_myopic" ->
         re_flag(s, p, <<"-", "-", "m", "y", "o", "p", "i", "c">>)
    [] rule = "t_myopic_periods" ->
         re_key_run(s, p, <<"-", "-", "m", "y", "o", "p", "i", "c", "_", "p", "e", "r", "i", "o", "d", "s">>, Digits)
    [] rule = "t_keep_myopic_databases" ->
         re_flag(s, p, <<"-", "-", "k", "e", "e", "p", "_", "m", "y", "o", "p", "i", "c", "_", "d", "a", "t", "a", "b", "a", "s", "e", "s">>)
    [] rule = "t_saveTEXTFILE" ->
         re_flag(s, p, <<"-", "-", "s", "a", "v", "e", "T", "E", "X", "T", "F", "I", "L", "E">>)
    [] rule = "t_path_to_data" ->
         re_key_path(s, p, <<"-", "-", "p", "a", "t", "h", "_", "t", "o", "_", "d", "a", "t", "a">>)
    [] rule = "t_path_to_logs" ->
         re_key_path(s, p, <<"-", "-", "p", "a", "t", "h", "_", "t", "o", "_", "l", "o", "g", "s">>)
    [] rule = "t_how_to_cite" ->
         re_flag(s, p, <<"-", "-", "h", "o", "w", "_", "t", "o", "_", "c", "i", "t", "e">>)
    [] rule = "t_version" ->
         re_flag(s, p, <<"-", "-", "v", "e", "r", "s", "i", "o", "n">>)
    [] rule = "t_neos" ->
         re_flag(s, p, <<"-", "-", "n", "e", "o", "s">>)
    [] rule = "t_solver" ->
         re_key_word(s, p, <<"-", "-", "s", "o", "l", "v", "e", "r">>)
    [] rule = "t_method" ->
         re_key_word(s, p, <<"-", "-", "m", "e", "t", "h", "o", "d">>)
    [] rule = "t_threads" ->
         re_key_word(s, p, <<"-", "-", "t", "h", "r", "e", "a", "d", "s">>)
    [] rule = "t_tee" ->
         re_flag(s, p, <<"-", "-", "t", "e", "e">>)
    [] rule = "t_keep_pyomo_lp_file" ->
         re_flag(s, p, <<"-", "-", "k", "e", "e", "p", "_", "p", "y", "o", "m", "o", "_", "l", "p", "_", "f", "i", "l", "e">>)
    [] rule = "t_begin_mga" ->
         re_key_brace(s, p, <<"-", "-", "m", "g", "a">>)
    [] rule = "t_mga_mgaslack" ->
         re_key_run(s, p, <<"s", "l", "a", "c", "k">>, NumChars)
    [] rule = "t_mga_mgaiter" ->
         re_key_run(s, p, <<"i", "t", "e", "r", "a", "t", "i", "o", "n">>, Digits)
    [] rule = "t_mga_mgamethod" ->
         re_key_enum(s, p, <<"m", "e", "t", "h", "o", "d">>,
                                 <<<<"i", "n", "t", "e", "g", "e", "r">>, <<"n", "o", "r", "m", "a", "l", "i", "z", "e", "d">>, <<"r", "a", "n", "d", "o", "m">>>>)
    [] rule = "t_mga_end" ->
         re_rbrace(s, p)
    [] rule = "t_begin_moo" ->
         re_key_brace(s, p, <<"-", "-", "m", "o", "o">>)
    [] rule = "t_moo_moof1" ->
         re_key_enum(s, p, <<"f", "1">>,
                                 <<<<"c", "o", "s", "t">>, <<"e", "m", "i", "s", "s", "i", "o", "n", "s">>, <<"e", "n", "e", "r", "g", "y", "S", "R">>, <<"m", "a", "t", "e", "r", "i", "a", "l", "S", "R">>>>)
    [] rule = "t_moo_moof2" ->
         re_key_enum(s, p, <<"f", "2">>,
                                 <<<<"c", "o", "s", "t">>, <<"e", "m", "i", "s", "s", "i", "o", "n", "s">>, <<"e", "n", "e", "r", "g", "y", "S", "R">>, <<"m", "a", "t", "e", "r", "i", "a", "l", "S", "R">>>>)
    [] rule = "t_moo_mooc" ->
         re_key_run(s, p, <<"c">>, NumChars)
    [] rule = "t_moo_mooncaps" ->
         re_key_run(s, p, <<"n", "c", "a", "p", "s">>, Digits)
    [] rule = "t_moo_end" ->
         re_rbrace(s, p)
    [] rule = "t_begin_mgpa" ->
         re_key_brace(s, p, <<"-", "-", "m", "g", "p", "a">>)
    [] rule = "t_mgpa_mgpaf1" ->
         re_key_enum(s, p, <<"f", "1">>,
                                 <<<<"c", "o", "s", "t">>, <<"e", "m", "i", "s", "s", "i", "o", "n", "s">>, <<"e", "n", "e", "r", "g", "y", "S", "R">>, <<"m", "a", "t", "e", "r", "i", "a", "l", "S", "R">>>>)
    [] rule = "t_mgpa_mgpaf2" ->
         re_key_enum(s, p, <<"f", "2">>,
                                 <<<<"c", "o", "s", "t">>, <<"e", "m", "i", "s", "s", "i", "o", "n", "s">>, <<"e", "n", "e", "r", "g", "y", "S", "R">>, <<"m", "a", "t", "e", "r", "i", "a", "l", "S", "R">>>>)
    [] rule = "t_mgpa_mgpac" ->
         re_key_run(s, p, <<"c">>, NumChars)
    [] rule = "t_mgpa_mgpancaps" ->
         re_key_run(s, p, <<"n", "c", "a", "p", "s">>, Digits)
    [] rule = "t_mgpa_mgpaslack1" ->
         re_key_run(s, p, <<"s", "l", "a", "c", "k", "1">>, NumChars)
    [] rule = "t_mgpa_mgpaslack2" ->
         re_key_run(s, p, <<"s", "l", "a", "c", "k", "2">>, NumChars)
    [] rule = "t_mgpa_mgpaiter" ->
         re_key_run(s, p, <<"i", "t", "e", "r", "a", "t", "i", "o", "n">>, Digits)
    [] rule = "t_mgpa_mgpamethod" ->
         re_key_enum(s, p, <<"m", "e", "t", "h", "o", "d">>,
                                 <<<<"i", "n", "t", "e", "g", "e", "r">>, <<"n", "o", "r", "m", "a", "l", "i", "z", "e", "d">>, <<"r", "a", "n", "d", "o", "m">>>>)
    [] rule = "t_mgpa_end" ->
         re_rbrace(s, p)
    [] rule = "t_ANY_newline" ->
         re_newline(s, p)

\* t.value.replace('=', ' ').split()[1]
value_field(t) == split(replace(t.value, "=", " "))[2]

\* t.value.replace('=', ',').split(",") of t_path_to_data and t_path_to_logs.
path_fields(t) == split_on(replace(t.value, "=", ","), ",")

\* The exception a rule function raises on token t, "" when it returns: float()
\* on digits and dots that are no number (lines 479, 509, 535, 543, 547), and
\* [1] on a one-element list when the path directive was written without '='
\* (lines 434, 438).
rule_raises(rule, t) ==
  CASE rule \in {"t_mga_mgaslack", "t_moo_mooc", "t_mgpa_mgpac", "t_mgpa_mgpaslack1", "t_mgpa_mgpaslack2"} ->
         IF float_ok(value_field(t)) THEN "" ELSE "ValueError"
    [] rule \in {"t_path_to_data", "t_path_to_logs"} ->
         IF Len(path_fields(t)) >= 2 THEN "" ELSE "IndexError"
    [] OTHER -> ""

\* The body of each rule function that sets a field of the configuration: the
\* fields after the function has run on token t.
rule_cfg(rule, self, t) ==
  CASE rule = "t_dot_dat" ->
         [self EXCEPT !.dot_dat = Append(@, abspath(value_field(t)))]
    [] rule = "t_output" ->
         [self EXCEPT !.output = Some(abspath(value_field(t)))]
    [] rule = "t_scenario" ->
         [self EXCEPT !.scenario = Some(value_field(t))]
    [] rule = "t_saveEXCEL" ->
         [self EXCEPT !.saveEXCEL = TRUE]
    [] rule = "t_saveDUALS" ->
         [self EXCEPT !.saveDUALS = TRUE]
    [] rule = "t_myopic" ->
         [self EXCEPT !.myopic = TRUE]
    [] rule = "t_myopic_periods" ->
         [self EXCEPT !.myopic_periods = int(value_field(t))]
    [] rule = "t_keep_myopic_databases" ->
         [self EXCEPT !.KeepMyopicDBs = TRUE]
    [] rule = "t_saveTEXTFILE" ->
         [self EXCEPT !.saveTEXTFILE = TRUE]
    [] rule = "t_path_to_data" ->
         [self EXCEPT !.path_to_data = abspath(path_fields(t)[2])]
    [] rule = "t_path_to_logs" ->
         [self EXCEPT !.path_to_logs = abspath(path_fields(t)[2])]
    [] rule = "t_how_to_cite" ->
         [self EXCEPT !.how_to_cite = Some(TRUE)]
    [] rule = "t_version" ->
         [self EXCEPT !.version = TRUE]
    [] rule = "t_neos" ->
         [self EXCEPT !.neos = TRUE]
    [] rule = "t_solver" ->
         [self EXCEPT !.solver = Some(value_field(t))]
    [] rule = "t_method" ->
         [self EXCEPT !.method = Some(value_field(t))]
    [] rule = "t_threads" ->
         [self EXCEPT !.threads = Some(value_field(t))]
    [] rule = "t_tee" ->
         [self EXCEPT !.tee = TRUE]
    [] rule = "t_keep_pyomo_lp_file" ->
         [self EXCEPT !.keepPyomoLP = TRUE]
    [] rule = "t_mga_mgaslack" ->
         [self EXCEPT !.mga_slack = Some(float(value_field(t)))]
    [] rule = "t_mga_mgaiter" ->
         [self EXCEPT !.mga_iter = Some(int(value_field(t)))]
    [] rule = "t_mga_mgamethod" ->
         [self EXCEPT !.mga_method = Some(value_field(t))]
    [] rule = "t_moo_moof1" ->
         [self EXCEPT !.moo_f1 = Some(value_field(t))]
    [] rule = "t_moo_moof2" ->
         [self EXCEPT !.moo_f2 = Some(value_field(t))]
    [] rule = "t_moo_mooc" ->
         [self EXCEPT !.moo_c = Some(float(value_field(t)))]
    [] rule = "t_moo_mooncaps" ->
         [self EXCEPT !.moo_ncaps = Some(int(value_field(t)))]
    [] rule = "t_mgpa_mgpaf1" ->
         [self EXCEPT !.mgpa_f1 = Some(value_field(t))]
    [] rule = "t_mgpa_mgpaf2" ->
         [self EXCEPT !.mgpa_f2 = Some(value_field(t))]
    [] rule = "t_mgpa_mgpac" ->
         [self EXCEPT !.mgpa_c = Some(float(value_field(t)))]
    [] rule = "t_mgpa_mgpancaps" ->
         [self EXCEPT !.mgpa_ncaps = Some(int(value_field(t)))]
    [] rule = "t_mgpa_mgpaslack1" ->
         [self EXCEPT !.mgpa_slack1 = Some(float(value_field(t)))]
    [] rule = "t_mgpa_mgpaslack2" ->
         [self EXCEPT !.mgpa_slack2 = Some(float(value_field(t)))]
    [] rule = "t_mgpa_mgpaiter" ->
         [self EXCEPT !.mgpa_iter = Some(int(value_field(t)))]
    [] rule = "t_mgpa_mgpamethod" ->
         [self EXCEPT !.mgpa_method = Some(value_field(t))]
    [] OTHER -> self

\* lexer.push_state(state): the current state is saved, then state is begun.
push_state(lex, state) ==
  [lex EXCEPT !.lexstatestack = Append(@, lex.lexstate), !.lexstate = state]

\* pop_state that drops the saved state without beginning it.
pop_state_Stay(lex) ==
  [lex EXCEPT !.lexstatestack = SubSeq(@, 1, Len(@) - 1)]

\* lexer.pop_state(): the state saved last is begun again.
pop_state(lex) ==
  [lex EXCEPT !.lexstate = lex.lexstatestack[Len(lex.lexstatestack)],
              !.lexstatestack = SubSeq(@, 1, Len(@) - 1)]

\* The body of each rule function that acts on the lexer: t_begin_mga,
\* t_begin_moo, t_begin_mgpa (push_state, level = 1), t_mga_end, t_moo_end,
\* t_mgpa_end (pop_state, level -= 1) and t_ANY_newline (lineno += len(t.value)).
rule_lexer(rule, lex, t) ==
  CASE rule = "t_begin_mga"  -> [push_state(lex, "mga")  EXCEPT !.level = Some(1)]
    [] rule = "t_begin_moo"  -> [push_state(lex, "moo")  EXCEPT !.level = Some(1)]
    [] rule = "t_begin_mgpa" -> [push_state(lex, "mgpa") EXCEPT !.level = Some(1)]
    [] rule \in {"t_mga_end", "t_moo_end", "t_mgpa_end"} ->
         [pop_state(lex) EXCEPT !.level = Some(Val(@) - 1)]
    [] rule = "t_ANY_newline" -> [lex EXCEPT !.lineno = @ + Len(t.value)]
    [] OTHER -> lex

\* t_ANY_error with the test of line 569 accepting a gap of one character.
t_ANY_error_WideMerge(err, t) ==
  LET span == [line |-> <<t.lineno, t.lineno>>, index |-> <<t.lexpos, t.lexpos>>,
               value |-> <<t.value[1]>>]
  IN IF err = << >> THEN Append(err, span)
     ELSE IF t.lexpos - err[Len(err)].index[2] <= 2
     THEN [err EXCEPT ![Len(err)] = [line  |-> <<@.line[1], t.lineno>>,
                                     index |-> <<@.index[1], t.lexpos>>,
                                     value |-> Append(@.value, t.value[1])]]
     ELSE Append(err, span)

\* t_ANY_error without the test of line 569: every character starts a span.
t_ANY_error_NoMerge(err, t) ==
  Append(err, [line |-> <<t.lineno, t.lineno>>, index |-> <<t.lexpos, t.lexpos>>,
               value |-> <<t.value[1]>>])

\* t_ANY_error, lines 566-574: the first character of the rest of the text
\* starts a new span, or extends the last span when it directly follows it.
t_ANY_error(err, t) ==
  LET span == [line |-> <<t.lineno, t.lineno>>, index |-> <<t.lexpos, t.lexpos>>,
               value |-> <<t.value[1]>>]
  IN IF err = << >> THEN Append(err, span)
     ELSE IF t.lexpos - err[Len(err)].index[2] = 1
     THEN [err EXCEPT ![Len(err)] = [line  |-> <<@.line[1], t.lineno>>,
                                     index |-> <<@.index[1], t.lexpos>>,
                                     value |-> Append(@.value, t.value[1])]]
     ELSE Append(err, span)

(***************************************************************************)
(* build(), lines 613-623: the lexer is fed the whole text and token() is  *)
(* called until it returns None.  Every rule function returns None, so one *)
(* call of token() runs PLY's loop to the end of the text; each pass of    *)
(* that loop is one step here: an ignored character is skipped, or the     *)
(* first matching rule of the current state runs its function, or          *)
(* t_ANY_error runs on the rest of the text.  An exception raised by a     *)
(* rule function leaves build().                                           *)
(***************************************************************************)
Lexing == pc = "lex" /\ lexer.lexpos < Len(text)

\* The rules of the current state that match at lexpos, as positions in lexre.
Matching ==
  {k \in 1..Len(lexre[lexer.lexstate]) :
     rule_re(lexre[lexer.lexstate][k], text, lexer.lexpos) # NoMatch}

\* The token handed to a rule function: the matched text, lineno and lexpos.
Token(end) == [value |-> Slice(text, lexer.lexpos, end),
               lineno |-> lexer.lineno, lexpos |-> lexer.lexpos]

token_ignore ==
  /\ Lexing
  /\ CharAt(text, lexer.lexpos) \in t_ANY_ignore
  /\ lexer' = [lexer EXCEPT !.lexpos = @ + 1]
  /\ UNCHANGED <<pc, exc, text, error, cfg, todo, done, exported, hist, input, disk, stderr, db_or_dat, conv, prev, stdout, thread>>

token_rule ==
  /\ Lexing
  /\ CharAt(text, lexer.lexpos) \notin t_ANY_ignore
  /\ Matching # {}
  /\ LET rule == lexre[lexer.lexstate][CHOOSE k \in Matching : \A j \in Matching : k <= j]
         end  == rule_re(rule, text, lexer.lexpos)
         t    == Token(end)
     IN IF rule_raises(rule, t) # ""
        THEN /\ pc' = "failed"
             /\ exc' = rule_raises(rule, t)
             /\ lexer' = [lexer EXCEPT !.lexpos = end]
             /\ UNCHANGED cfg
        ELSE /\ cfg' = rule_cfg(rule, cfg, t)
             /\ lexer' = rule_lexer(rule, [lexer EXCEPT !.lexpos = end], t)
             /\ UNCHANGED <<pc, exc>>
  /\ UNCHANGED <<text, error, todo, done, exported, hist, input, disk, stderr, db_or_dat, conv, prev, stdout, thread>>

\* No rule matches: t_ANY_error gets the rest of the text and skips one character.
token_error ==
  /\ Lexing
  /\ CharAt(text, lexer.lexpos) \notin t_ANY_ignore
  /\ Matching = {}
  /\ error' = t_ANY_error(error, Token(Len(text)))
  /\ lexer' = [lexer EXCEPT !.lexpos = @ + 1]
  /\ UNCHANGED <<pc, exc, text, cfg, todo, done, exported, hist, input, disk, stderr, db_or_dat, conv, prev, stdout, thread>>

\* The end of the text: token() returns None and the loop of line 621 ends.
token_eof ==
  /\ pc = "lex"
  /\ lexer.lexpos >= Len(text)
  /\ pc' = "lexed"
  /\ UNCHANGED <<exc, text, lexer, error, cfg, todo, done, exported, hist, input, disk, stderr, db_or_dat, conv, prev, stdout, thread>>

(***************************************************************************)
(* build(), lines 625-642: the report of the error spans.  The message is  *)
(* written to stderr and to Complete_OutputLog.log in path_to_logs, or to  *)
(* OutputLog.log in the working directory when that file cannot be opened  *)
(* (the working directory is taken to be writable); abort_temoa is set.    *)
(***************************************************************************)
\* Lines 627-631: one "Line a to b: 'value'" entry per span.
error_msg(err) == [k \in 1..Len(err) |-> <<err[k].line[1], err[k].line[2], err[k].value>>]

CompleteLog == <<"C", "o", "m", "p", "l", "e", "t", "e", "_", "O", "u", "t", "p", "u", "t", "L", "o", "g", ".", "l", "o", "g">>
FallbackLog == <<"O", "u", "t", "p", "u", "t", "L", "o", "g", ".", "l", "o", "g">>

\* Report with abort_temoa set only when the log folder could be written.
Report_AbortIfLogged ==
  /\ pc = "lexed"
  /\ pc' = "check"
  /\ IF error # << >>
     THEN LET msg == error_msg(error)
          IN /\ stderr' = IF disk.logdir
                          THEN Append(stderr, [what |-> "illegal", msg |-> msg])
                          ELSE stderr \o <<[what |-> "illegal", msg |-> msg],
                                           [what |-> "no log", msg |-> cfg.path_to_logs]>>
             /\ disk' = [disk EXCEPT !.log =
                           Append(@, [file |-> IF disk.logdir
                                               THEN cfg.path_to_logs \o <<"/">> \o CompleteLog
                                               ELSE FallbackLog,
                                      msg |-> msg])]
             /\ cfg' = [cfg EXCEPT !.abort_temoa = disk.logdir]
     ELSE UNCHANGED <<stderr, disk, cfg>>
  /\ UNCHANGED <<exc, text, lexer, error, todo, done, exported, hist, input, db_or_dat, conv, prev, stdout, thread>>

Report ==
  /\ pc = "lexed"
  /\ pc' = "check"
  /\ IF error # << >>
     THEN LET msg == error_msg(error)
          IN /\ stderr' = IF disk.logdir
                          THEN Append(stderr, [what |-> "illegal", msg |-> msg])
                          ELSE stderr \o <<[what |-> "illegal", msg |-> msg],
                                           [what |-> "no log", msg |-> cfg.path_to_logs]>>
             /\ disk' = [disk EXCEPT !.log =
                           Append(@, [file |-> IF disk.logdir
                                               THEN cfg.path_to_logs \o <<"/">> \o CompleteLog
                                               ELSE FallbackLog,
                                      msg |-> msg])]
             /\ cfg' = [cfg EXCEPT !.abort_temoa = TRUE]
     ELSE UNCHANGED <<stderr, disk, cfg>>
  /\ UNCHANGED <<exc, text, lexer, error, todo, done, exported, hist, input, db_or_dat, conv, prev, stdout, thread>>

(***************************************************************************)
(* build(), lines 645-664: the checks.  The loop of lines 648-655 stops at *)
(* the first input file that does not exist and sets db_or_dat anew for    *)
(* every file whose extension it knows.                                    *)
(***************************************************************************)
isfile(path) == path \in disk.files

\* "not self.output", "not self.scenario": None and the empty string are false.
is_set(o) == o # None /\ Len(Val(o)) > 0

\* Lines 651-655: db_or_dat after a file of extension ext.
classify(ext, flag) ==
  IF ext \in {<<".", "d", "a", "t">>, <<".", "t", "x", "t">>} THEN FALSE
  ELSE IF ext \in {<<".", "d", "b">>, <<".", "s", "q", "l", "i", "t", "e">>,
                   <<".", "s", "q", "l", "i", "t", "e", "3">>,
                   <<"s", "q", "l", "i", "t", "e", "d", "b">>} THEN TRUE
  ELSE flag

\* classify with the flag or-ed over the files instead of set anew.
RECURSIVE check_loop_AnyDb(_, _, _)
check_loop_AnyDb(dot_dat, k, flag) ==
  IF k > Len(dot_dat) THEN [missing |-> FALSE, flag |-> flag]
  ELSE IF ~isfile(dot_dat[k]) THEN [missing |-> TRUE, flag |-> flag]
  ELSE check_loop_AnyDb(dot_dat, k + 1,
                        (k > 1 /\ flag) \/ classify(splitext(dot_dat[k])[2], flag))

\* Lines 648-655 from the k-th file on: whether a file is missing, and db_or_dat.
RECURSIVE check_loop(_, _, _)
check_loop(dot_dat, k, flag) ==
  IF k > Len(dot_dat) THEN [missing |-> FALSE, flag |-> flag]
  ELSE IF ~isfile(dot_dat[k]) THEN [missing |-> TRUE, flag |-> flag]
  ELSE check_loop(dot_dat, k + 1, classify(splitext(dot_dat[k])[2], flag))

\* The message of the exception the checks raise, "" when they all pass.
check_raises_NoOutputTest(r) ==
  IF cfg.dot_dat = << >> THEN "Input file not specified."
  ELSE IF r.missing THEN "Cannot locate input file"
  ELSE IF ~is_set(cfg.scenario) /\ r.flag THEN "Scenario name not specified."
  ELSE ""

check_raises(r) ==
  IF cfg.dot_dat = << >> THEN "Input file not specified."
  ELSE IF r.missing THEN "Cannot locate input file"
  ELSE IF ~is_set(cfg.output) /\ r.flag THEN "Output file not specified."
  ELSE IF r.flag /\ ~isfile(Val(cfg.output)) THEN "Cannot locate output file"
  ELSE IF ~is_set(cfg.scenario) /\ r.flag THEN "Scenario name not specified."
  ELSE ""

CheckMessages ==
  { "Input file not specified.", "Cannot locate input file", "Output file not specified.",
    "Cannot locate output file", "Scenario name not specified." }

\* Check with a name put on the MGA queue before the output and scenario checks.
Check_QueuesFirst ==
  /\ pc = "check"
  /\ LET r == check_loop(cfg.dot_dat, 1, TRUE)
     IN /\ db_or_dat' = r.flag
        /\ exc' = check_raises(r)
        /\ pc' = IF check_raises(r) = "" THEN "populate" ELSE "failed"
        /\ todo' = IF is_set(cfg.scenario) /\ cfg.dot_dat # << >> /\ ~r.missing /\ check_raises(r) # ""
                   THEN [todo EXCEPT !.mga = Append(@, cfg.scenario)]
                   ELSE todo
  /\ UNCHANGED <<text, lexer, error, cfg, done, exported, hist, input, disk, stderr, conv, prev, stdout, thread>>

Check ==
  /\ pc = "check"
  /\ LET r == check_loop(cfg.dot_dat, 1, TRUE)
     IN /\ db_or_dat' = r.flag
        /\ exc' = check_raises(r)
        /\ pc' = IF check_raises(r) = "" THEN "populate" ELSE "failed"
  /\ UNCHANGED <<text, lexer, error, cfg, todo, done, exported, hist, input, disk, stderr, conv, prev, stdout, thread>>

(***************************************************************************)
(* build(), lines 666-679: the population of the three pending queues.     *)
(***************************************************************************)
\* mga_names with the index counted from 1 instead of 0.
mga_names_FromOne(scenario, mga_iter) ==
  IF Truthy(mga_iter)
  THEN [k \in 1..Val(mga_iter) |-> Some(Val(scenario) \o mga_infix \o str(k))]
  ELSE << >>

\* Lines 666-668: scenario_mga_0 .. scenario_mga_(iter-1).
mga_names(scenario, mga_iter) ==
  IF Truthy(mga_iter)
  THEN [k \in 1..Val(mga_iter) |->
          Some(Val(scenario) \o mga_infix \o str(range(Val(mga_iter))[k]))]
  ELSE << >>

\* Lines 670-672: scenario_moo_0 .. scenario_moo_(ncaps-1).
moo_names(scenario, moo_ncaps) ==
  IF Truthy(moo_ncaps)
  THEN [k \in 1..Val(moo_ncaps) |->
          Some(Val(scenario) \o moo_infix \o str(range(Val(moo_ncaps))[k]))]
  ELSE << >>

\* mgpa_cap_names with the name of the cap put after its nested names.
mgpa_cap_names_CapLast(scenario, i, mgpa_iter) ==
  (IF Truthy(mgpa_iter)
   THEN [k \in 1..Val(mgpa_iter) |->
           Some(Val(scenario) \o moo_infix \o str(i) \o mga_infix \o str(range(Val(mgpa_iter))[k]))]
   ELSE << >>)
  \o <<Some(Val(scenario) \o moo_infix \o str(i))>>

\* Lines 676-679, one pass of the outer loop: the name of cap i, then, when an
\* iteration count is set, its nested names for j = 0 .. iter-1.
mgpa_cap_names(scenario, i, mgpa_iter) ==
  <<Some(Val(scenario) \o moo_infix \o str(i))>> \o
  (IF Truthy(mgpa_iter)
   THEN [k \in 1..Val(mgpa_iter) |->
           Some(Val(scenario) \o moo_infix \o str(i) \o mga_infix \o str(range(Val(mgpa_iter))[k]))]
   ELSE << >>)

\* Lines 674-679.
mgpa_names(scenario, mgpa_ncaps, mgpa_iter) ==
  IF Truthy(mgpa_ncaps)
  THEN Flatten([k \in 1..Val(mgpa_ncaps) |->
                  mgpa_cap_names(scenario, range(Val(mgpa_ncaps))[k], mgpa_iter)])
  ELSE << >>

\* "self.scenario + '_mga_'" raises TypeError when scenario is None; the first
\* put of the first technique with a count is then never reached.
PopulateRaises ==
  cfg.scenario = None /\
  (Truthy(cfg.mga_iter) \/ Truthy(cfg.moo_ncaps) \/ Truthy(cfg.mgpa_ncaps))

Populate ==
  /\ pc = "populate"
  /\ IF PopulateRaises
     THEN /\ pc' = "failed"
          /\ exc' = "TypeError"
          /\ UNCHANGED <<todo, hist>>
     ELSE /\ pc' = "convert"
          /\ todo' = [mga  |-> todo.mga  \o mga_names(cfg.scenario, cfg.mga_iter),
                      moo  |-> todo.moo  \o moo_names(cfg.scenario, cfg.moo_ncaps),
                      mgpa |-> todo.mgpa \o mgpa_names(cfg.scenario, cfg.mgpa_ncaps, cfg.mgpa_iter)]
          /\ hist' = [hist EXCEPT !.base = cfg.scenario, !.enq = todo']
          /\ UNCHANGED exc
  /\ UNCHANGED <<text, lexer, error, cfg, done, exported, input, disk, stderr, db_or_dat, conv, prev, stdout, thread>>

(***************************************************************************)
(* build(), lines 681-696: every input file that is not a .dat file is     *)
(* handed to db_2_dat and replaced in dot_dat by its .dat name.  A call    *)
(* of db_2_dat may raise; failAt = f makes the f-th call raise (0: none).  *)
(***************************************************************************)
\* convert_loop without line 691: the entry keeps its old name.
RECURSIVE convert_loop_NoReplace(_, _, _, _)
convert_loop_NoReplace(dot_dat, k, calls, failAt) ==
  IF k > Len(dot_dat)
  THEN [dot_dat |-> dot_dat, calls |-> calls, raised |-> FALSE]
  ELSE LET ifile == dot_dat[k]
           ofile == splitext(ifile)[1] \o dot_dat_ext
       IN IF splitext(ifile)[2] # dot_dat_ext
          THEN IF Len(calls) + 1 = failAt
               THEN [dot_dat |-> dot_dat, calls |-> Append(calls, <<ifile, ofile>>), raised |-> TRUE]
               ELSE convert_loop_NoReplace(dot_dat, k + 1, Append(calls, <<ifile, ofile>>), failAt)
          ELSE convert_loop_NoReplace(dot_dat, k + 1, calls, failAt)

RECURSIVE convert_loop(_, _, _, _)
convert_loop(dot_dat, k, calls, failAt) ==
  IF k > Len(dot_dat)
  THEN [dot_dat |-> dot_dat, calls |-> calls, raised |-> FALSE]
  ELSE LET ifile == dot_dat[k]
           ofile == splitext(ifile)[1] \o dot_dat_ext
       IN IF splitext(ifile)[2] # dot_dat_ext
          THEN IF Len(calls) + 1 = failAt
               THEN [dot_dat |-> dot_dat, calls |-> Append(calls, <<ifile, ofile>>), raised |-> TRUE]
               ELSE convert_loop([dot_dat EXCEPT ![FirstIndex(dot_dat, ifile)] = ofile],
                                 k + 1, Append(calls, <<ifile, ofile>>), failAt)
          ELSE convert_loop(dot_dat, k + 1, calls, failAt)

\* with open(ofile, 'w') of line 189 and the writes up to the end of db_2_dat,
\* or up to the exception: the file is created or emptied, then written.
open_w(d, call, whole) ==
  [files |-> d.files \cup {call[2]},
   data  |-> [f \in d.files \cup {call[2]} |->
                IF f = call[2] THEN IF whole THEN Export(call[1]) ELSE Partial(call[1])
                ELSE d.data[f]],
   logdir |-> d.logdir, log |-> d.log]

\* The files after the calls of db_2_dat from call n on; the last call is the
\* one that raised when whole is false.
RECURSIVE write_ofiles(_, _, _, _)
write_ofiles(d, calls, n, whole) ==
  IF n > Len(calls) THEN d
  ELSE write_ofiles(open_w(d, calls[n], n < Len(calls) \/ whole), calls, n + 1, whole)

\* Lines 681-682: a file is opened on os.devnull and put in place of sys.stdout.
suppress(out) == [stream |-> "devnull", sink |-> "open"]

\* Lines 693-694, reached when no call of db_2_dat raised: the file is closed
\* and sys.__stdout__ is put back.
restore(out) == [stream |-> "__stdout__", sink |-> "closed"]

\* Lines 681-695.  A call of db_2_dat may raise: when it opens ofile, which
\* then is as it was, or later, with ofile emptied and written in part.
Convert ==
  /\ pc = "convert"
  /\ \E failAt \in 0..Len(cfg.dot_dat), opened \in BOOLEAN :
       LET r == convert_loop(cfg.dot_dat, 1, << >>, failAt)
       IN /\ failAt > 0 => r.raised
          /\ failAt = 0 => opened
          /\ cfg' = [cfg EXCEPT !.dot_dat = r.dot_dat]
          /\ exported' = exported \o r.calls
          /\ disk' = IF r.raised /\ ~opened
                     THEN write_ofiles(disk, SubSeq(r.calls, 1, Len(r.calls) - 1), 1, TRUE)
                     ELSE write_ofiles(disk, r.calls, 1, ~r.raised)
          /\ stderr' = IF ~r.raised /\ Len(r.calls) > 0
                        THEN Append(stderr, [what |-> "converted", msg |-> Len(r.calls)])
                        ELSE stderr
          /\ pc' = IF r.raised THEN "failed" ELSE "built"
          /\ exc' = IF r.raised THEN "ExporterError" ELSE exc
          /\ stdout' = IF r.raised THEN suppress(stdout) ELSE restore(suppress(stdout))
  /\ UNCHANGED <<text, lexer, error, todo, done, hist, input, db_or_dat, conv, prev, thread>>

(***************************************************************************)
(* next_mga / next_moo / next_mgpa, lines 577-599.  The driver calls them  *)
(* once build has returned; hist.rets records what each call returned.     *)
(***************************************************************************)
Calls == Len(hist.rets.mga) + Len(hist.rets.moo) + Len(hist.rets.mgpa)

MayCall == pc = "built" /\ Calls < MaxCalls

\* next_mga with lines 579 and 580 swapped: the new name is recorded as done.
next_mga_SwappedPut ==
  /\ MayCall
  /\ IF todo.mga # << >>
     THEN /\ done' = [done EXCEPT !.mga = Append(@, Head(todo.mga))]
          /\ cfg'  = [cfg EXCEPT !.scenario = Head(todo.mga)]
          /\ todo' = [todo EXCEPT !.mga = Tail(@)]
          /\ hist' = [hist EXCEPT !.rets.mga = Append(@, TRUE)]
     ELSE /\ hist' = [hist EXCEPT !.rets.mga = Append(@, FALSE)]
          /\ UNCHANGED <<cfg, todo, done>>
  /\ UNCHANGED <<pc, exc, text, lexer, error, exported, input, disk, stderr, db_or_dat, conv, prev, stdout, thread>>

\* next_mga without the put of line 579: the finished scenario is not recorded.
next_mga_NoPut ==
  /\ MayCall
  /\ IF todo.mga # << >>
     THEN /\ cfg'  = [cfg EXCEPT !.scenario = Head(todo.mga)]
          /\ todo' = [todo EXCEPT !.mga = Tail(@)]
          /\ hist' = [hist EXCEPT !.rets.mga = Append(@, TRUE)]
          /\ UNCHANGED done
     ELSE /\ hist' = [hist EXCEPT !.rets.mga = Append(@, FALSE)]
          /\ UNCHANGED <<cfg, todo, done>>
  /\ UNCHANGED <<pc, exc, text, lexer, error, exported, input, disk, stderr, db_or_dat, conv, prev, stdout, thread>>

next_mga ==
  /\ MayCall
  /\ IF todo.mga # << >>
     THEN /\ done' = [done EXCEPT !.mga = Append(@, cfg.scenario)]
          /\ cfg'  = [cfg EXCEPT !.scenario = Head(todo.mga)]
          /\ todo' = [todo EXCEPT !.mga = Tail(@)]
          /\ hist' = [hist EXCEPT !.rets.mga = Append(@, TRUE)]
     ELSE /\ hist' = [hist EXCEPT !.rets.mga = Append(@, FALSE)]
          /\ UNCHANGED <<cfg, todo, done>>
  /\ UNCHANGED <<pc, exc, text, lexer, error, exported, input, disk, stderr, db_or_dat, conv, prev, stdout, thread>>

\* next_moo with the put of line 587 moved out of the test of line 586.
next_moo_PutAlways ==
  /\ MayCall
  /\ done' = [done EXCEPT !.moo = Append(@, cfg.scenario)]
  /\ IF todo.moo # << >>
     THEN /\ cfg'  = [cfg EXCEPT !.scenario = Head(todo.moo)]
          /\ todo' = [todo EXCEPT !.moo = Tail(@)]
          /\ hist' = [hist EXCEPT !.rets.moo = Append(@, TRUE)]
     ELSE /\ hist' = [hist EXCEPT !.rets.moo = Append(@, FALSE)]
          /\ UNCHANGED <<cfg, todo>>
  /\ UNCHANGED <<pc, exc, text, lexer, error, exported, input, disk, stderr, db_or_dat, conv, prev, stdout, thread>>

\* next_moo taking the newest pending name (a stack) instead of the oldest.
next_moo_Lifo ==
  /\ MayCall
  /\ IF todo.moo # << >>
     THEN /\ done' = [done EXCEPT !.moo = Append(@, cfg.scenario)]
          /\ cfg'  = [cfg EXCEPT !.scenario = todo.moo[Len(todo.moo)]]
          /\ todo' = [todo EXCEPT !.moo = SubSeq(@, 1, Len(@) - 1)]
          /\ hist' = [hist EXCEPT !.rets.moo = Append(@, TRUE)]
     ELSE /\ hist' = [hist EXCEPT !.rets.moo = Append(@, FALSE)]
          /\ UNCHANGED <<cfg, todo, done>>
  /\ UNCHANGED <<pc, exc, text, lexer, error, exported, input, disk, stderr, db_or_dat, conv, prev, stdout, thread>>

next_moo ==
  /\ MayCall
  /\ IF todo.moo # << >>
     THEN /\ done' = [done EXCEPT !.moo = Append(@, cfg.scenario)]
          /\ cfg'  = [cfg EXCEPT !.scenario = Head(todo.moo)]
          /\ todo' = [todo EXCEPT !.moo = Tail(@)]
          /\ hist' = [hist EXCEPT !.rets.moo = Append(@, TRUE)]
     ELSE /\ hist' = [hist EXCEPT !.rets.moo = Append(@, FALSE)]
          /\ UNCHANGED <<cfg, todo, done>>
  /\ UNCHANGED <<pc, exc, text, lexer, error, exported, input, disk, stderr, db_or_dat, conv, prev, stdout, thread>>

\* next_mgpa recording the finished scenario in the MOO done queue.
next_mgpa_MooDone ==
  /\ MayCall
  /\ IF todo.mgpa # << >>
     THEN /\ done' = [done EXCEPT !.moo = Append(@, cfg.scenario)]
          /\ cfg'  = [cfg EXCEPT !.scenario = Head(todo.mgpa)]
          /\ todo' = [todo EXCEPT !.mgpa = Tail(@)]
          /\ hist' = [hist EXCEPT !.rets.mgpa = Append(@, TRUE)]
     ELSE /\ hist' = [hist EXCEPT !.rets.mgpa = Append(@, FALSE)]
          /\ UNCHANGED <<cfg, todo, done>>
  /\ UNCHANGED <<pc, exc, text, lexer, error, exported, input, disk, stderr, db_or_dat, conv, prev, stdout, thread>>

\* next_mgpa leaving the name it returns at the head of the pending queue.
next_mgpa_KeepsHead ==
  /\ MayCall
  /\ IF todo.mgpa # << >>
     THEN /\ done' = [done EXCEPT !.mgpa = Append(@, cfg.scenario)]
          /\ cfg'  = [cfg EXCEPT !.scenario = Head(todo.mgpa)]
          /\ hist' = [hist EXCEPT !.rets.mgpa = Append(@, TRUE)]
          /\ UNCHANGED todo
     ELSE /\ hist' = [hist EXCEPT !.rets.mgpa = Append(@, FALSE)]
          /\ UNCHANGED <<cfg, todo, done>>
  /\ UNCHANGED <<pc, exc, text, lexer, error, exported, input, disk, stderr, db_or_dat, conv, prev, stdout, thread>>

next_mgpa ==
  /\ MayCall
  /\ IF todo.mgpa # << >>
     THEN /\ done' = [done EXCEPT !.mgpa = Append(@, cfg.scenario)]
          /\ cfg'  = [cfg EXCEPT !.scenario = Head(todo.mgpa)]
          /\ todo' = [todo EXCEPT !.mgpa = Tail(@)]
          /\ hist' = [hist EXCEPT !.rets.mgpa = Append(@, TRUE)]
     ELSE /\ hist' = [hist EXCEPT !.rets.mgpa = Append(@, FALSE)]
          /\ UNCHANGED <<cfg, todo, done>>
  /\ UNCHANGED <<pc, exc, text, lexer, error, exported, input, disk, stderr, db_or_dat, conv, prev, stdout, thread>>


(***************************************************************************)
(* The scenario queues: build from its population step on, for the counts  *)
(* a configuration file can set, then any sequence of next_* calls.        *)
(***************************************************************************)
IterCounts == {None} \cup {Some(n) : n \in 0..MaxIter}
CapCounts  == {None} \cup {Some(n) : n \in 0..MaxCaps}

BaseScenario == <<"s">>
FlatInput    == <<"/", "a", ".", "d", "a", "t">>
DbInput      == <<"/", "a", ".", "d", "b">>
DbOutput     == <<"/", "o", ".", "d", "b">>

\* What lexing and the checks of lines 645-664 leave: a relational input comes
\* with an output file and a scenario name, a flat input may come without.
QueueInputs ==
  { [InitCfg EXCEPT !.scenario = sc,
                    !.dot_dat = IF sc = None THEN <<FlatInput>> ELSE <<DbInput>>,
                    !.output = IF sc = None THEN None ELSE Some(DbOutput),
                    !.mga_iter = a, !.moo_ncaps = b, !.mgpa_ncaps = n, !.mgpa_iter = d] :
      sc \in {None, Some(BaseScenario)},
      a \in IterCounts, b \in CapCounts, n \in CapCounts, d \in IterCounts }

InitQueue ==
  /\ pc = "populate"
  /\ exc = ""
  /\ text = << >>
  /\ lexer = InitLexer
  /\ error = << >>
  /\ cfg \in QueueInputs
  /\ todo = InitQueues
  /\ done = InitQueues
  /\ exported = << >>
  /\ hist = InitHist
  /\ input = << >>
  /\ disk = Disk(({DbOutput} \cup {cfg.dot_dat[k] : k \in 1..Len(cfg.dot_dat)}), TRUE)
  /\ stderr = << >>
  /\ db_or_dat = (cfg.scenario # None)
  /\ conv = NoConv
  /\ prev = NoPrev
  /\ stdout = InitStdout
  /\ thread = NoCalls

NextQueue == Populate \/ Convert \/ next_mga \/ next_moo \/ next_mgpa

SpecQueue == InitQueue /\ [][NextQueue]_vars

(***************************************************************************)
(* A driver that calls next_mga, next_moo and next_mgpa in any order and   *)
(* calls each of them until it returns False, for the configurations whose *)
(* names can all be taken within MaxCalls calls.  build() runs to its end  *)
(* and the driver goes on to call every technique it has not finished.     *)
(***************************************************************************)
\* next_T has returned False.
Exhausted(T) == \E k \in 1..Len(hist.rets[T]) : ~hist.rets[T][k]

drive_mga  == ~Exhausted("mga")  /\ next_mga
drive_moo  == ~Exhausted("moo")  /\ next_moo
drive_mgpa == ~Exhausted("mgpa") /\ next_mgpa

\* The names lines 666-679 enqueue for the counts of configuration c.
enqueued(c) ==
  LET n(o) == IF o = None THEN 0 ELSE Val(o)
  IN n(c.mga_iter) + n(c.moo_ncaps) + n(c.mgpa_ncaps) * (1 + n(c.mgpa_iter))

DriveInputs == {c \in QueueInputs : enqueued(c) + Cardinality(Techniques) <= MaxCalls}

InitDrive == InitQueue /\ cfg \in DriveInputs

NextDrive == Populate \/ Convert \/ drive_mga \/ drive_moo \/ drive_mgpa

SpecDrive ==
  /\ InitDrive /\ [][NextDrive]_vars
  /\ WF_vars(Populate) /\ WF_vars(Convert)
  /\ WF_vars(drive_mga) /\ WF_vars(drive_moo) /\ WF_vars(drive_mgpa)

(***************************************************************************)
(* Two driver threads calling next_mga / next_moo / next_mgpa on the one   *)
(* TemoaConfig object, lines 577-599.  A thread may be switched out        *)
(* between any two operations of a call, so a call is four steps: the test *)
(* of empty(), the put on the done queue, the get from the pending queue,  *)
(* and the store of self.scenario with the return.  queue.Queue makes      *)
(* empty(), put() and get() atomic, and get() waits while the queue is     *)
(* empty.                                                                  *)
(***************************************************************************)
\* The calls begun: those that returned and those under way.
Started == Calls + Cardinality({t \in Threads : thread[t].call.at # "idle"})

\* The queue fields of the call thread t is in.
At(t, where) == thread[t].call.at = where

\* "if not self.__T_todo.empty():", and "return False" when it is empty.
empty_test(t) ==
  /\ pc = "built" /\ Started < MaxCalls
  /\ At(t, "idle")
  /\ \E T \in Techniques :
        IF todo[T] # << >>
        THEN /\ thread' = [thread EXCEPT ![t].call = [at |-> "put", T |-> T, item |-> None]]
             /\ UNCHANGED hist
        ELSE /\ hist' = [hist EXCEPT !.rets[T] = Append(@, FALSE)]
             /\ UNCHANGED thread
  /\ UNCHANGED <<pc, exc, text, lexer, error, cfg, todo, done, exported, input, disk, stderr, db_or_dat, conv, prev, stdout>>

\* "self.__T_done.put(self.scenario)".
done_put(t) ==
  /\ At(t, "put")
  /\ done' = [done EXCEPT ![thread[t].call.T] = Append(@, cfg.scenario)]
  /\ thread' = [thread EXCEPT ![t].call.at = "get"]
  /\ UNCHANGED <<pc, exc, text, lexer, error, cfg, todo, exported, hist, input, disk, stderr, db_or_dat, conv, prev, stdout>>

\* "self.__T_todo.get()": the head of the pending queue, once there is one.
todo_get(t) ==
  /\ At(t, "get")
  /\ todo[thread[t].call.T] # << >>
  /\ thread' = [thread EXCEPT ![t].call.at = "set", ![t].call.item = Head(todo[thread[t].call.T])]
  /\ todo' = [todo EXCEPT ![thread[t].call.T] = Tail(@)]
  /\ UNCHANGED <<pc, exc, text, lexer, error, cfg, done, exported, hist, input, disk, stderr, db_or_dat, conv, prev, stdout>>

\* "self.scenario = ..." and "return True".
set_scenario(t) ==
  /\ At(t, "set")
  /\ cfg' = [cfg EXCEPT !.scenario = thread[t].call.item]
  /\ hist' = [hist EXCEPT !.rets[thread[t].call.T] = Append(@, TRUE)]
  /\ thread' = [thread EXCEPT ![t].call = Idle,
                              ![t].took = Append(@, <<thread[t].call.T, thread[t].call.item>>)]
  /\ UNCHANGED <<pc, exc, text, lexer, error, todo, done, exported, input, disk, stderr, db_or_dat, conv, prev, stdout>>

thread_test == \E t \in Threads : empty_test(t)
thread_put  == \E t \in Threads : done_put(t)
thread_get  == \E t \in Threads : todo_get(t)
thread_set  == \E t \in Threads : set_scenario(t)

\* The configurations of a sweep: build has a scenario name to derive the
\* names of the queues from, and a count that is absent is left absent.
ThreadInputs == {c \in DriveInputs : c.scenario # None /\ Some(0) \notin {c.mga_iter, c.moo_ncaps, c.mgpa_ncaps, c.mgpa_iter}}

InitThreads == InitQueue /\ cfg \in ThreadInputs

NextThreads == Populate \/ Convert \/ thread_test \/ thread_put \/ thread_get \/ thread_set

\* The scheduler lets every thread run: a thread that can take the next step
\* of its call takes it.
SpecThreads ==
  /\ InitThreads /\ [][NextThreads]_vars
  /\ WF_vars(Populate) /\ WF_vars(Convert)
  /\ \A t \in Threads : WF_vars(done_put(t)) /\ WF_vars(todo_get(t)) /\ WF_vars(set_scenario(t))

(***************************************************************************)
(* build() after lexing, lines 625-696: report, checks, queue population   *)
(* and conversion, from every configuration a text can leave (input files  *)
(* named .dat, .db or .sqlite, each field set or not), with or without     *)
(* error spans, on every file system over the files named.                 *)
(***************************************************************************)
MaxFiles == 2   \* input files in one configuration

SqliteInput == <<"/", "b", ".", "s", "q", "l", "i", "t", "e">>
TwinInput   == <<"/", "a", ".", "s", "q", "l", "i", "t", "e">>
InputFiles  == {FlatInput, DbInput, SqliteInput, TwinInput}

\* An error span as lexing leaves it for one illegal character at offset 0.
OneError == <<[line |-> <<1, 1>>, index |-> <<0, 0>>, value |-> <<"x">>]>>

BuildInputs ==
  { [InitCfg EXCEPT !.dot_dat = files, !.output = out, !.scenario = sc,
                    !.mga_iter = a, !.mgpa_ncaps = n] :
      files \in SeqsUpTo(InputFiles, MaxFiles),
      out \in {None, Some(DbOutput)},
      sc \in {None, Some(BaseScenario)},
      a \in {None, Some(MaxIter)},
      n \in {None, Some(MaxCaps)} }

InitBuild ==
  /\ pc = "lexed"
  /\ exc = ""
  /\ text = << >>
  /\ lexer = InitLexer
  /\ error \in {<< >>, OneError}
  /\ cfg \in BuildInputs
  /\ todo = InitQueues
  /\ done = InitQueues
  /\ exported = << >>
  /\ hist = InitHist
  /\ input = cfg
  /\ \E F \in SUBSET (InputFiles \cup {DbOutput}), logdir \in BOOLEAN : disk = Disk(F, logdir)
  /\ stderr = << >>
  /\ db_or_dat = TRUE
  /\ conv = NoConv
  /\ prev = NoPrev
  /\ stdout = InitStdout
  /\ thread = NoCalls

NextBuild == Report \/ Check \/ Populate \/ Convert

SpecBuild == InitBuild /\ [][NextBuild]_vars


(***************************************************************************)
(* db_2_dat, lines 26-227.  A database holds, for every table that exists, *)
(* its rows in the order the cursor returns them; a row is the tuple       *)
(* SELECT * gives (line), together with its columns named flag and sector  *)
(* where the queries of the source read them.  The file written is kept as *)
(* the sequence of the strings handed to f.write.                          *)
(***************************************************************************)
PyStr(v) == [t |-> "str", v |-> v]
PyInt(n) == [t |-> "int", v |-> n]
PyNone   == [t |-> "None", v |-> 0]

\* repr(x) and str(x) of a column value.
py_repr(x) ==
  CASE x.t = "str" -> <<"'">> \o x.v \o <<"'">>
    [] x.t = "int" -> str(x.v)
    [] OTHER       -> <<"N", "o", "n", "e">>

py_str(x) ==
  CASE x.t = "str" -> x.v
    [] x.t = "int" -> str(x.v)
    [] OTHER       -> <<"N", "o", "n", "e">>

\* str(t) of a tuple: "()", "(x,)", "(x, y, ...)".
tuple_str(line) ==
  IF Len(line) = 1 THEN <<"(">> \o py_repr(line[1]) \o <<",", ")">>
  ELSE <<"(">> \o join(<<",", " ">>, [k \in 1..Len(line) |-> py_repr(line[k])]) \o <<")">>

\* re.sub('[...]', by, s) for a class of single characters.
re_sub(C, by, s) == Flatten([k \in 1..Len(s) |-> IF s[k] \in C THEN by ELSE <<s[k]>>])

\* line[a:b] of Python, 0-based and clamped to the tuple.
py_slice(line, a, b) ==
  LET lo == IF a < Len(line) THEN a ELSE Len(line)
      hi == IF b < Len(line) THEN b ELSE Len(line)
  IN IF lo < hi THEN SubSeq(line, lo + 1, hi) ELSE << >>

\* Lines 94-95 and 97-98: "(" is removed, then each of ' , ) becomes four blanks.
collapse(fields) ==
  re_sub({"'", ",", ")"}, <<" ", " ", " ", " ">>, re_sub({"("}, << >>, tuple_str(fields)))

\* Line 99: re.search(r'^\W+$', s).
all_nonword(s) == Len(s) > 0 /\ \A k \in 1..Len(s) : s[k] \notin WordChars

\* Lines 93 and 96: the fields kept before and after the comment sign.
before_comments(line, t_index) == py_slice(line, 0, t_index + 1)
after_comments(line, t_index)  == py_slice(line, t_index + 2, Len(line))

\* Lines 86-105: the string written for one row.
str_row(line, t_index) ==
  IF t_index = 0 THEN py_str(line[1]) \o <<"\n">>
  ELSE LET before == collapse(before_comments(line, t_index))
           after  == collapse(after_comments(line, t_index))
       IN IF ~all_nonword(after) THEN before \o <<"#", " ">> \o after \o <<"\n">>
          ELSE before \o <<"\n">>

\* The strings written to the file, each with the statement that wrote it.
Chunk(kind, chars) == [kind |-> kind, text |-> chars]

SectionEnd == Chunk("end", <<";", "\n", "\n">>)

\* Lines 63-66, 72-75, 81-84.
section_header(t_type, name) ==
  Chunk("header", (IF t_type = "set" THEN <<"s", "e", "t", " ">> ELSE <<"p", "a", "r", "a", "m", " ">>) \o name \o <<" ", ":", "=", " ", "\n">>)

\* The flag of a table_list entry: none (''), one value, or a list.
NoFlag      == [kind |-> "none", values |-> {}]
Flag(v)     == [kind |-> "one", values |-> {v}]
FlagList(S) == [kind |-> "list", values |-> S]

TableSpec(t_type, t_name, t_dtname, t_flag, t_index) ==
  [t_type |-> t_type, t_name |-> t_name, t_dtname |-> t_dtname, t_flag |-> t_flag, t_index |-> t_index]

\* The rows the query of lines 59, 68 or 77 selects; the query of a list flag
\* is hard-wired to 'p', 'pb', 'ps'.
db_query(rows, t_flag) ==
  CASE t_flag.kind = "list" -> SelectSeq(rows, LAMBDA r : r.flag \in {"p", "pb", "ps"})
    [] t_flag.kind = "one"  -> SelectSeq(rows, LAMBDA r : r.flag \in t_flag.values)
    [] OTHER                -> rows

\* query_table writing header and terminator before the test for rows.
query_table_EmptySection(t_properties, rows) ==
  LET sel  == db_query(rows, t_properties.t_flag)
      name == IF t_properties.t_flag.kind = "none" THEN t_properties.t_name
              ELSE t_properties.t_dtname
  IN <<section_header(t_properties.t_type, name)>>
     \o [k \in 1..Len(sel) |-> Chunk("row", str_row(sel[k].line, t_properties.t_index))]
     \o <<SectionEnd>>

\* query_table, lines 52-106: what one table_list entry writes for a table
\* that exists with the rows given.
query_table(t_properties, rows) ==
  LET sel  == db_query(rows, t_properties.t_flag)
      name == IF t_properties.t_flag.kind = "none" THEN t_properties.t_name
              ELSE t_properties.t_dtname
  IN IF sel = << >> THEN << >>
     ELSE <<section_header(t_properties.t_type, name)>>
          \o [k \in 1..Len(sel) |-> Chunk("row", str_row(sel[k].line, t_properties.t_index))]
          \o <<SectionEnd>>

time_periods     == <<"t", "i", "m", "e", "_", "p", "e", "r", "i", "o", "d", "s">>
technologies     == <<"t", "e", "c", "h", "n", "o", "l", "o", "g", "i", "e", "s">>
TechGroupWeight  == <<"T", "e", "c", "h", "G", "r", "o", "u", "p", "W", "e", "i", "g", "h", "t">>
DiscreteCapacity == <<"D", "i", "s", "c", "r", "e", "t", "e", "C", "a", "p", "a", "c", "i", "t", "y">>
tech_mga         == <<"t", "e", "c", "h", "_", "m", "g", "a">>

\* Lines 109-187, the entries of table_list for four of its tables, in the
\* order of the source: every kind of flag and the comment indexes 0, 1 and 2.
table_list ==
  << TableSpec("set", time_periods, <<"t", "i", "m", "e", "_", "e", "x", "i", "s", "t">>, Flag("e"), 0),
     TableSpec("set", time_periods, <<"t", "i", "m", "e", "_", "f", "u", "t", "u", "r", "e">>, Flag("f"), 0),
     TableSpec("set", technologies, <<"t", "e", "c", "h", "_", "r", "e", "s", "o", "u", "r", "c", "e">>, Flag("r"), 0),
     TableSpec("set", technologies, <<"t", "e", "c", "h", "_", "p", "r", "o", "d", "u", "c", "t", "i", "o", "n">>, FlagList({"p", "pb", "ps"}), 0),
     TableSpec("set", technologies, <<"t", "e", "c", "h", "_", "b", "a", "s", "e", "l", "o", "a", "d">>, Flag("pb"), 0),
     TableSpec("param", TechGroupWeight, << >>, NoFlag, 2),
     TableSpec("param", DiscreteCapacity, << >>, NoFlag, 1) >>

\* Lines 33-38.
write_tech_mga(rows) ==
  <<Chunk("header", <<"s", "e", "t", " ", "t", "e", "c", "h", "_", "m", "g", "a", " ", ":", "=", "\n">>)>>
  \o [k \in 1..Len(rows) |-> Chunk("row", rows[k].line[1].v \o <<"\n">>)]
  \o <<SectionEnd>>

\* Lines 45-50 for the sectors in the order the set yields them.
write_tech_sector(rows, sectors) ==
  Flatten([i \in 1..Len(sectors) |->
             LET sel == SelectSeq(rows, LAMBDA r : r.sector = sectors[i])
             IN <<Chunk("header", <<"s", "e", "t", " ", "t", "e", "c", "h", "_">> \o sectors[i] \o <<" ", ":", "=", "\n">>)>>
                \o [k \in 1..Len(sel) |-> Chunk("row", sel[k].line[1].v \o <<"\n">>)]
                \o <<SectionEnd>>])

\* The orders in which a Python set of the members of S can be iterated.
Orders(S) == {q \in [1..Cardinality(S) -> S] : \A x \in S : \E k \in DOMAIN q : q[k] = x}

Row(flag, sector, line) == [flag |-> flag, sector |-> sector, line |-> line]

Exporting == pc = "db_2_dat"

\* Lines 189-198: the file is opened and 'data ;' written, the database is
\* connected and its tables are listed.
export_open ==
  /\ Exporting /\ conv.table = 0
  /\ conv' = [conv EXCEPT !.f = <<Chunk("data", <<"d", "a", "t", "a", " ", ";", "\n", "\n">>)>>, !.table = 1]
  /\ UNCHANGED <<pc, exc, text, lexer, error, cfg, todo, done, exported, hist, input, disk, stderr, db_or_dat, prev, stdout, thread>>

\* Lines 200-202, one pass of the loop over table_list.
export_table ==
  /\ Exporting /\ conv.table \in 1..Len(table_list)
  /\ LET table == table_list[conv.table]
     IN conv' = [conv EXCEPT
                   !.f = IF conv.db.tables[table.t_name] # None
                         THEN @ \o query_table(table, Val(conv.db.tables[table.t_name]))
                         ELSE @,
                   !.table = @ + 1]
  /\ UNCHANGED <<pc, exc, text, lexer, error, cfg, todo, done, exported, hist, input, disk, stderr, db_or_dat, prev, stdout, thread>>

\* The sections one method writes (lines 203-206 or 207-210), None when the
\* table it reads does not exist and cur.execute raises.
sweep_sections(method, order) ==
  IF method \in {Some(<<"i", "n", "t", "e", "g", "e", "r">>), Some(<<"r", "a", "n", "d", "o", "m">>)}
  THEN IF conv.db.tables[tech_mga] = None THEN None
       ELSE Some(write_tech_mga(Val(conv.db.tables[tech_mga])))
  ELSE IF method = Some(<<"n", "o", "r", "m", "a", "l", "i", "z", "e", "d">>)
  THEN IF conv.db.tables[technologies] = None THEN None
       ELSE Some(write_tech_sector(Val(conv.db.tables[technologies]), order))
  ELSE Some(<< >>)

\* The sectors of the technologies table.
Sectors ==
  IF conv.db.tables[technologies] = None THEN {}
  ELSE {Val(conv.db.tables[technologies])[k].sector : k \in 1..Len(Val(conv.db.tables[technologies]))}

\* Lines 203-210: the sections of the MGA method, then those of the MGPA method.
\* The order in which a set of sector names is iterated follows from the hashes
\* of the names, which are drawn when the Python process starts: the two
\* methods of one export see the same order, another run may see another.
export_sweep ==
  /\ Exporting /\ conv.table = Len(table_list) + 1
  /\ \E order \in Orders(Sectors) :
       LET a == sweep_sections(cfg.mga_method, order)
           b == sweep_sections(cfg.mgpa_method, order)
       IN IF a = None
          THEN /\ pc' = "failed" /\ exc' = "OperationalError"
               /\ UNCHANGED conv
          ELSE IF b = None
          THEN /\ pc' = "failed" /\ exc' = "OperationalError"
               /\ conv' = [conv EXCEPT !.f = @ \o Val(a)]
          ELSE /\ conv' = [conv EXCEPT !.f = @ \o Val(a) \o Val(b), !.table = @ + 1]
               /\ UNCHANGED <<pc, exc>>
  /\ UNCHANGED <<text, lexer, error, cfg, todo, done, exported, hist, input, disk, stderr, db_or_dat, prev, stdout, thread>>

\* str(options.scenario) of lines 214-222.
scenario_str == IF cfg.scenario = None THEN <<"N", "o", "n", "e">> ELSE Val(cfg.scenario)

\* The tables of lines 214-222, in the order of the statements.
output_tables ==
  << <<"O", "u", "t", "p", "u", "t", "_", "C", "a", "p", "a", "c", "i", "t", "y", "B", "y", "P", "e", "r", "i", "o", "d", "A", "n", "d", "T", "e", "c", "h">>,
     <<"O", "u", "t", "p", "u", "t", "_", "E", "m", "i", "s", "s", "i", "o", "n", "s">>,
     <<"O", "u", "t", "p", "u", "t", "_", "C", "o", "s", "t", "s">>,
     <<"O", "u", "t", "p", "u", "t", "_", "O", "b", "j", "e", "c", "t", "i", "v", "e">>,
     <<"O", "u", "t", "p", "u", "t", "_", "V", "F", "l", "o", "w", "_", "I", "n">>,
     <<"O", "u", "t", "p", "u", "t", "_", "V", "F", "l", "o", "w", "_", "O", "u", "t">>,
     <<"O", "u", "t", "p", "u", "t", "_", "V", "_", "C", "a", "p", "a", "c", "i", "t", "y">>,
     <<"O", "u", "t", "p", "u", "t", "_", "C", "u", "r", "t", "a", "i", "l", "m", "e", "n", "t">>,
     <<"O", "u", "t", "p", "u", "t", "_", "D", "u", "a", "l", "s">> >>

\* DELETE FROM <table> WHERE scenario='<name>' on the rows of one table.
delete_from(rows, name) == SelectSeq(rows, LAMBDA r : r.scenario # name)

\* The first statement of lines 214-222 whose table does not exist, one past
\* the last statement when every table exists.
first_missing(outputs) ==
  LET miss == {k \in 1..Len(output_tables) : outputs[output_tables[k]] = None}
  IN IF miss = {} THEN Len(output_tables) + 1
     ELSE CHOOSE k \in miss : \A j \in miss : k <= j

\* Lines 212-227: for a myopic run the stored output rows of the scenario are
\* deleted table by table, each statement committed as it runs (the connection
\* is opened with isolation_level=None); a statement on a missing table raises
\* and leaves the later tables as they were.  Cursor and connection are closed.
export_close ==
  /\ Exporting /\ conv.table = Len(table_list) + 2
  /\ LET stop == IF cfg.myopic THEN first_missing(conv.db.outputs) ELSE 1
         ran(n) == \E k \in 1..(stop - 1) : output_tables[k] = n
     IN /\ conv' = [conv EXCEPT
                      !.db.outputs = IF cfg.myopic
                                     THEN [n \in DOMAIN @ |->
                                             IF ran(n) THEN Some(delete_from(Val(@[n]), scenario_str)) ELSE @[n]]
                                     ELSE @,
                      !.table = @ + 1]
        /\ IF cfg.myopic /\ stop <= Len(output_tables)
           THEN pc' = "failed" /\ exc' = "OperationalError"
           ELSE pc' = "exported" /\ UNCHANGED exc
  /\ UNCHANGED <<text, lexer, error, cfg, todo, done, exported, hist, input, disk, stderr, db_or_dat, prev, stdout, thread>>

(***************************************************************************)
(* One call of db_2_dat on every database over the rows below, for every   *)
(* choice of the options it reads.                                         *)
(***************************************************************************)
A  == PyStr(<<"A">>)
B  == PyStr(<<"B">>)
T1 == PyStr(<<"T", "1">>)
T2 == PyStr(<<"T", "2">>)

TableChoices ==
  [ tp  : { None, Some(<< >>),
            Some(<<Row("e", "", <<PyInt(5), PyStr(<<"e">>)>>)>>),
            Some(<<Row("f", "", <<PyInt(7), PyStr(<<"f">>)>>), Row("e", "", <<PyInt(5), PyStr(<<"e">>)>>)>>) },
    te  : { None, Some(<< >>),
            Some(<<Row("p", <<"x">>, <<T1, PyStr(<<"p">>), PyStr(<<"x">>)>>)>>),
            Some(<<Row("r", <<"r", "e", "s", "o", "u", "r", "c", "e">>,
                       <<T2, PyStr(<<"r">>), PyStr(<<"r", "e", "s", "o", "u", "r", "c", "e">>)>>)>>),
            Some(<<Row("pb", <<"y">>, <<T2, PyStr(<<"p", "b">>), PyStr(<<"y">>)>>),
                   Row("p", <<"x">>, <<T1, PyStr(<<"p">>), PyStr(<<"x">>)>>)>>) },
    tgw : { None,
            Some(<<Row("", "", <<T1, PyStr(<<"g">>), PyInt(1), PyNone>>)>>),
            Some(<<Row("", "", <<T1, PyStr(<<"g">>), PyInt(1), PyStr(<<"d">>), PyStr(<<"n">>)>>)>>) },
    dc  : { None, Some(<< >>),
            Some(<<Row("", "", <<A, PyInt(1)>>), Row("", "", <<B, PyInt(2)>>)>>),
            Some(<<Row("", "", <<A, PyInt(1), PyStr(<<"u">>), PyStr(<<"n">>)>>)>>) },
    tm  : { None, Some(<<Row("", "", <<T1>>)>>) } ]

OtherScenario == <<"t">>

OutRow(scenario, v) == [scenario |-> scenario, v |-> v]

\* The stored output rows: of two scenarios; of a scenario named None; and a
\* database of an older schema, without the Output_Curtailment table.
OutputChoices ==
  LET two    == Some(<<OutRow(BaseScenario, 1), OutRow(OtherScenario, 2), OutRow(BaseScenario, 3)>>)
      named  == Some(<<OutRow(<<"N", "o", "n", "e">>, 1), OutRow(BaseScenario, 2)>>)
      all(r) == [n \in {output_tables[k] : k \in 1..Len(output_tables)} |-> r]
  IN { all(two), all(named), [all(two) EXCEPT ![output_tables[8]] = None] }

Database(c, o) ==
  [ tables  |-> (time_periods :> c.tp) @@ (technologies :> c.te) @@ (TechGroupWeight :> c.tgw)
                @@ (DiscreteCapacity :> c.dc) @@ (tech_mga :> c.tm),
    outputs |-> o ]

\* The methods lines 203-210 tell apart, and none.
Methods ==
  { None, Some(<<"i", "n", "t", "e", "g", "e", "r">>), Some(<<"r", "a", "n", "d", "o", "m">>),
    Some(<<"n", "o", "r", "m", "a", "l", "i", "z", "e", "d">>) }

ExportOptions ==
  { [InitCfg EXCEPT !.scenario = n, !.mga_method = m, !.mgpa_method = g, !.myopic = y] :
      n \in {None, Some(BaseScenario)}, m \in Methods, g \in Methods, y \in BOOLEAN }

InitExport ==
  /\ pc = "db_2_dat"
  /\ exc = ""
  /\ text = << >>
  /\ lexer = InitLexer
  /\ error = << >>
  /\ cfg \in ExportOptions
  /\ todo = InitQueues
  /\ done = InitQueues
  /\ exported = << >>
  /\ hist = InitHist
  /\ input = << >>
  /\ disk = Disk({DbInput}, TRUE)
  /\ stderr = << >>
  /\ db_or_dat = TRUE
  /\ \E c \in TableChoices, o \in OutputChoices : conv = [db |-> Database(c, o), f |-> << >>, table |-> 0]
  /\ prev = NoPrev
  /\ stdout = InitStdout
  /\ thread = NoCalls

NextExport == export_open \/ export_table \/ export_sweep \/ export_close

SpecExport == InitExport /\ [][NextExport]_vars

(***************************************************************************)
(* The same export made twice: a run of the program exports a database,    *)
(* and a second run, a new Python process, exports the same database with  *)
(* the same options.  The database is read only (no myopic cleanup), so    *)
(* the second run reads what the first one read.                           *)
(***************************************************************************)
\* What an export left: how it ended and the text of its file.
Exported == [pc |-> pc, exc |-> exc, f |-> conv.f]

\* The second run of db_2_dat, on the database and options of the first.
export_again ==
  /\ pc \in {"exported", "failed"}
  /\ prev.got = << >>
  /\ prev' = [prev EXCEPT !.got = <<Exported>>]
  /\ conv' = [db |-> conv.db, f |-> << >>, table |-> 0]
  /\ pc' = "db_2_dat"
  /\ exc' = ""
  /\ UNCHANGED <<text, lexer, error, cfg, todo, done, exported, hist, input, disk, stderr, db_or_dat, stdout, thread>>

InitRerun ==
  /\ InitExport
  /\ ~cfg.myopic /\ cfg.scenario # None
  /\ conv.db.outputs = CHOOSE o \in OutputChoices : TRUE

NextRerun == export_open \/ export_table \/ export_sweep \/ export_close \/ export_again

SpecRerun == InitRerun /\ [][NextRerun]_vars

(***************************************************************************)
(* Configuration texts.  A text is written from items: a core of short     *)
(* fragments combined freely, and a catalogue of every directive of the    *)
(* language, written alone or two on a line or on two lines.  An item      *)
(* keeps the field its directive sets and the value as written.            *)
(***************************************************************************)
Item(kind, chars, field, value) == [kind |-> kind, chars |-> chars, field |-> field, value |-> value]

Fragment(chars) == Item("text", chars, "", << >>)
Blank           == Item("sep", <<" ">>, "", << >>)
LineFeed        == Item("sep", <<"\n">>, "", << >>)

\* key, separator and value of a default-mode directive.
Directive(key, sep, value, field) == Item("directive", key \o sep \o value, field, value)

\* A sweep key inside the block of its technique: --<technique> { key value }.
Block(trigger, key, sep, value, field) ==
  Item("directive", trigger \o <<" ", "{", " ">> \o key \o sep \o value \o <<" ", "}">>, field, value)

OpenMga   == Fragment(<<"-", "-", "m", "g", "a", " ", "{">>)
BadSlack  == Fragment(<<"s", "l", "a", "c", "k", "=", "1", ".", "2", ".", "3">>)
GoodSlack == Fragment(<<"s", "l", "a", "c", "k", "=", ".", "5">>)

OpenMoo   == Fragment(<<"-", "-", "m", "o", "o", " ", "{">>)
OpenMgpa  == Fragment(<<"-", "-", "m", "g", "p", "a", "=", "{">>)
CloseBrace == Fragment(<<"}">>)

\* Directives and keys written where their mode does not recognise them.
MethodDirective == Fragment(<<"-", "-", "m", "e", "t", "h", "o", "d", "=", "r", "a", "n", "d", "o", "m">>)
TeeDirective    == Fragment(<<"-", "-", "t", "e", "e">>)
NcapsKey        == Fragment(<<"n", "c", "a", "p", "s", "=", "2">>)
IterationKey    == Fragment(<<"i", "t", "e", "r", "a", "t", "i", "o", "n", "=", "2">>)

\* Line breaks of the three kinds, and a comment.
CarriageReturn == Item("sep", <<"\r">>, "", << >>)
CrLf           == Item("sep", <<"\r", "\n">>, "", << >>)
Comment        == Fragment(<<"#", "c">>)

\* A directive with its value on the line after its key.
SplitDirective == Directive(<<"-", "-", "s", "c", "e", "n", "a", "r", "i", "o">>, <<"\n">>, <<"s", "1">>, "scenario")

LineItems ==
  { Fragment(<<"x">>), Fragment(<<"[">>), Item("sep", <<"\t">>, "", << >>), LineFeed, CarriageReturn, CrLf,
    Comment, TeeDirective, SplitDirective }

ModeItems ==
  { OpenMga, OpenMoo, OpenMgpa, CloseBrace, Blank,
    MethodDirective, TeeDirective, NcapsKey, IterationKey }

CoreItems ==
  { Fragment(<<"x">>), Blank, LineFeed, Fragment(<<"-", "-", "t", "e", "e">>),
    OpenMga, BadSlack, GoodSlack, Fragment(<<"}">>) }

FlagDirectives ==
  { Directive(<<"-", "-", "s", "a", "v", "e", "E", "X", "C", "E", "L">>, << >>, << >>, "saveEXCEL"),
    Directive(<<"-", "-", "s", "a", "v", "e", "D", "U", "A", "L", "S">>, << >>, << >>, "saveDUALS"),
    Directive(<<"-", "-", "m", "y", "o", "p", "i", "c">>, << >>, << >>, "myopic"),
    Directive(<<"-", "-", "k", "e", "e", "p", "_", "m", "y", "o", "p", "i", "c", "_", "d", "a", "t", "a", "b", "a", "s", "e", "s">>, << >>, << >>, "KeepMyopicDBs"),
    Directive(<<"-", "-", "s", "a", "v", "e", "T", "E", "X", "T", "F", "I", "L", "E">>, << >>, << >>, "saveTEXTFILE"),
    Directive(<<"-", "-", "h", "o", "w", "_", "t", "o", "_", "c", "i", "t", "e">>, << >>, << >>, "how_to_cite"),
    Directive(<<"-", "-", "v", "e", "r", "s", "i", "o", "n">>, << >>, << >>, "version"),
    Directive(<<"-", "-", "n", "e", "o", "s">>, << >>, << >>, "neos"),
    Directive(<<"-", "-", "t", "e", "e">>, << >>, << >>, "tee"),
    Directive(<<"-", "-", "k", "e", "e", "p", "_", "p", "y", "o", "m", "o", "_", "l", "p", "_", "f", "i", "l", "e">>, << >>, << >>, "keepPyomoLP") }

ValuedDirectives ==
  UNION { { Directive(<<"-", "-", "i", "n", "p", "u", "t">>, sep, <<"a", ".", "d", "b">>, "dot_dat"),
            Directive(<<"-", "-", "o", "u", "t", "p", "u", "t">>, sep, <<"o", ".", "d", "b">>, "output"),
            Directive(<<"-", "-", "s", "c", "e", "n", "a", "r", "i", "o">>, sep, <<"s", "1">>, "scenario"),
            Directive(<<"-", "-", "m", "y", "o", "p", "i", "c", "_", "p", "e", "r", "i", "o", "d", "s">>, sep, <<"2">>, "myopic_periods"),
            Directive(<<"-", "-", "p", "a", "t", "h", "_", "t", "o", "_", "d", "a", "t", "a">>, sep, <<"/", "p">>, "path_to_data"),
            Directive(<<"-", "-", "p", "a", "t", "h", "_", "t", "o", "_", "l", "o", "g", "s">>, sep, <<"/", "l">>, "path_to_logs"),
            Directive(<<"-", "-", "s", "o", "l", "v", "e", "r">>, sep, <<"c", "b", "c">>, "solver"),
            Directive(<<"-", "-", "m", "e", "t", "h", "o", "d">>, sep, <<"m", "1">>, "method"),
            Directive(<<"-", "-", "t", "h", "r", "e", "a", "d", "s">>, sep, <<"4">>, "threads") } :
          sep \in {<<"=">>, <<" ">>} }

BlockDirectives ==
  UNION { { Block(<<"-", "-", "m", "g", "a">>, <<"s", "l", "a", "c", "k">>, sep, <<"0", ".", "5">>, "mga_slack"),
            Block(<<"-", "-", "m", "g", "a">>, <<"i", "t", "e", "r", "a", "t", "i", "o", "n">>, sep, <<"2">>, "mga_iter"),
            Block(<<"-", "-", "m", "g", "a">>, <<"m", "e", "t", "h", "o", "d">>, sep, <<"i", "n", "t", "e", "g", "e", "r">>, "mga_method"),
            Block(<<"-", "-", "m", "o", "o">>, <<"f", "1">>, sep, <<"c", "o", "s", "t">>, "moo_f1"),
            Block(<<"-", "-", "m", "o", "o">>, <<"f", "2">>, sep, <<"e", "m", "i", "s", "s", "i", "o", "n", "s">>, "moo_f2"),
            Block(<<"-", "-", "m", "o", "o">>, <<"c">>, sep, <<".", "5">>, "moo_c"),
            Block(<<"-", "-", "m", "o", "o">>, <<"n", "c", "a", "p", "s">>, sep, <<"2">>, "moo_ncaps"),
            Block(<<"-", "-", "m", "g", "p", "a">>, <<"f", "1">>, sep, <<"e", "n", "e", "r", "g", "y", "S", "R">>, "mgpa_f1"),
            Block(<<"-", "-", "m", "g", "p", "a">>, <<"f", "2">>, sep, <<"m", "a", "t", "e", "r", "i", "a", "l", "S", "R">>, "mgpa_f2"),
            Block(<<"-", "-", "m", "g", "p", "a">>, <<"c">>, sep, <<"1", ".">>, "mgpa_c"),
            Block(<<"-", "-", "m", "g", "p", "a">>, <<"n", "c", "a", "p", "s">>, sep, <<"3">>, "mgpa_ncaps"),
            Block(<<"-", "-", "m", "g", "p", "a">>, <<"s", "l", "a", "c", "k", "1">>, sep, <<"0", ".", "2", "5">>, "mgpa_slack1"),
            Block(<<"-", "-", "m", "g", "p", "a">>, <<"s", "l", "a", "c", "k", "2">>, sep, <<"1", "0">>, "mgpa_slack2"),
            Block(<<"-", "-", "m", "g", "p", "a">>, <<"i", "t", "e", "r", "a", "t", "i", "o", "n">>, sep, <<"1">>, "mgpa_iter"),
            Block(<<"-", "-", "m", "g", "p", "a">>, <<"m", "e", "t", "h", "o", "d">>, sep, <<"r", "a", "n", "d", "o", "m">>, "mgpa_method") } :
          sep \in {<<"=">>, <<" ">>} }

Catalogue == FlagDirectives \cup ValuedDirectives \cup BlockDirectives

MaxItems == 3   \* fragments in one text

LexInputs ==
  SeqsUpTo(CoreItems, MaxItems)
  \cup SeqsUpTo(ModeItems, MaxItems)
  \cup SeqsUpTo(LineItems, MaxItems)
  \cup {<<d>> : d \in Catalogue}
  \cup {i \in {<<d, sep, e>> : d \in Catalogue, sep \in {Blank, LineFeed}, e \in Catalogue} :
          i[1].field # i[3].field}

\* The contents of the file written from a sequence of items.
Render(items) == Flatten([k \in 1..Len(items) |-> items[k].chars])

\* f.read() of lines 615-620: the file is opened in text mode, where "\r\n"
\* and a lone "\r" are read as "\n".
RECURSIVE read(_)
read(s) ==
  IF s = << >> THEN << >>
  ELSE IF Head(s) # "\r" THEN <<Head(s)>> \o read(Tail(s))
  ELSE IF Len(s) > 1 /\ s[2] = "\n" THEN <<"\n">> \o read(Tail(Tail(s)))
  ELSE <<"\n">> \o read(Tail(s))

InitLex ==
  /\ pc = "lex"
  /\ exc = ""
  /\ input \in LexInputs
  /\ text = read(Render(input))
  /\ lexer = InitLexer
  /\ error = << >>
  /\ cfg = InitCfg
  /\ todo = InitQueues
  /\ done = InitQueues
  /\ exported = << >>
  /\ hist = InitHist
  /\ disk = Disk({}, TRUE)
  /\ stderr = << >>
  /\ db_or_dat = TRUE
  /\ conv = NoConv
  /\ prev = NoPrev
  /\ stdout = InitStdout
  /\ thread = NoCalls

NextLex == token_ignore \/ token_rule \/ token_error \/ token_eof

SpecLex == InitLex /\ [][NextLex]_vars

(***************************************************************************)
(* A driver that builds several configuration texts, each with a           *)
(* TemoaConfig object of its own, and keeps what every build gave.         *)
(***************************************************************************)
\* What the build that has just ended gave.
Outcome == [input |-> input, pc |-> pc, exc |-> exc, cfg |-> cfg, error |-> error]

\* TemoaConfig() and build() up to lexer.input for the next text.
build_again ==
  /\ pc \in {"lexed", "failed"}
  /\ prev.texts # << >>
  /\ prev' = [got |-> Append(prev.got, Outcome), texts |-> Tail(prev.texts)]
  /\ input' = Head(prev.texts)
  /\ text' = read(Render(Head(prev.texts)))
  /\ pc' = "lex"
  /\ exc' = ""
  /\ lexer' = InitLexer
  /\ error' = << >>
  /\ cfg' = InitCfg
  /\ UNCHANGED <<todo, done, exported, hist, disk, stderr, db_or_dat, conv, stdout, thread>>

\* The same directive written with "=" and with a blank between key and
\* value, alone and with other text before and after it.
SeparatorPairs ==
  { p \in { <<pre \o <<d>> \o post, pre \o <<e>> \o post>> :
              pre  \in {<< >>, <<Blank>>, <<Fragment(<<"x">>)>>},
              post \in {<< >>, <<LineFeed, Fragment(<<"x">>)>>},
              d \in {i \in ValuedDirectives \cup BlockDirectives : \E k \in 1..Len(i.chars) : i.chars[k] = "="},
              e \in {i \in ValuedDirectives \cup BlockDirectives : \A k \in 1..Len(i.chars) : i.chars[k] # "="} } :
      \E k \in 1..Len(p[1]) : p[1][k].field # "" /\ p[1][k].field = p[2][k].field }

\* The directives of the default mode, and a few of them of every kind.
DefaultDirectives == FlagDirectives \cup ValuedDirectives
SomeDirectives ==
  {d \in DefaultDirectives : d.field \in {"tee", "scenario", "myopic_periods", "path_to_data"}
                             /\ \A k \in 1..Len(d.chars) : d.chars[k] # " "}

\* Two or three distinct directives, on one line or on a line each, and the
\* same directives in another order.
OrderPairs ==
  { p \in { <<<<d, sep, e>>, <<e, sep, d>>>> :
              sep \in {Blank, LineFeed}, d \in DefaultDirectives, e \in DefaultDirectives } :
      p[1][1].field # p[1][3].field }
  \cup
  { p \in { <<<<d[1], sep, d[2], sep, d[3]>>, <<d[q[1]], sep, d[q[2]], sep, d[q[3]]>>>> :
              sep \in {Blank, LineFeed},
              d \in [1..3 -> SomeDirectives], q \in Orders(1..3) } :
      /\ p[1] # p[2]
      /\ \A i, j \in {1, 3, 5} : i # j => p[1][i].field # p[1][j].field }

AgainInputs == SeparatorPairs \cup OrderPairs

InitAgain ==
  /\ pc = "lex"
  /\ exc = ""
  /\ \E p \in AgainInputs :
        /\ input = p[1]
        /\ text = read(Render(p[1]))
        /\ prev = [got |-> << >>, texts |-> <<p[2]>>]
        /\ stdout = InitStdout
        /\ thread = NoCalls
  /\ lexer = InitLexer
  /\ error = << >>
  /\ cfg = InitCfg
  /\ todo = InitQueues
  /\ done = InitQueues
  /\ exported = << >>
  /\ hist = InitHist
  /\ disk = Disk({}, TRUE)
  /\ stderr = << >>
  /\ db_or_dat = TRUE
  /\ conv = NoConv

NextAgain == token_ignore \/ token_rule \/ token_error \/ token_eof \/ build_again

SpecAgain == InitAgain /\ [][NextAgain]_vars

(***************************************************************************)
(* Properties of the scenario queues.                                      *)
(***************************************************************************)
\* This step is a call of next_T, and what the call returned.
Called(T)   == Len(hist'.rets[T]) = Len(hist.rets[T]) + 1
Returned(T) == hist'.rets[T][Len(hist'.rets[T])]

\* Every technique but T has not been advanced yet.
OnlyAdvanced(T) == \A U \in Techniques \ {T} : hist.rets[U] = << >>

\* The count a field stands for: None counts as 0.
Count(o) == IF o = None THEN 0 ELSE Val(o)

\* C1: a call of next_T on a non-empty pending queue appends the current
\* scenario name to T's done queue, removes the head of T's pending queue and
\* makes it the current scenario name, and returns true.
C1_AdvanceMovesHead ==
  [][\A T \in Techniques :
       (Called(T) /\ todo[T] # << >>) =>
          /\ done'[T] = Append(done[T], cfg.scenario)
          /\ cfg'.scenario = Head(todo[T])
          /\ todo'[T] = Tail(todo[T])
          /\ Returned(T) = TRUE]_vars

C1_Witness ==
  \E T \in Techniques :
     /\ hist.rets[T] # << >> /\ hist.rets[T][1] = TRUE
     /\ Len(done[T]) = 2 /\ todo[T] # << >>

\* C2: when only technique T is advanced and build enqueued N names for it, the
\* k-th call returns true exactly when k <= N; once the N names are taken the
\* current scenario name is the last enqueued name and T's done queue holds the
\* N names that were current before it (the base scenario name, then the first
\* N-1 enqueued names), in order.
C2_SweepToExhaustion ==
  \A T \in Techniques :
     (pc = "built" /\ OnlyAdvanced(T)) =>
        LET N == Len(hist.enq[T])
        IN /\ \A k \in 1..Len(hist.rets[T]) : hist.rets[T][k] = (k <= N)
           /\ (N >= 1 /\ Len(hist.rets[T]) >= N) =>
                 /\ cfg.scenario = hist.enq[T][N]
                 /\ done[T] = <<hist.base>> \o SubSeq(hist.enq[T], 1, N - 1)
                 /\ todo[T] = << >>

C2_Witness ==
  \E T \in Techniques :
     /\ pc = "built" /\ OnlyAdvanced(T)
     /\ Len(hist.enq[T]) >= 3
     /\ Len(hist.rets[T]) = Len(hist.enq[T]) + 1
     /\ Len(done[T]) = Len(hist.enq[T])

\* C3: a call of next_T on an empty pending queue returns false and changes
\* neither the scenario name nor any pending or done queue.
C3_ExhaustedIsNoOp ==
  [][\A T \in Techniques :
       (Called(T) /\ todo[T] = << >>) =>
          /\ Returned(T) = FALSE
          /\ UNCHANGED <<cfg, todo, done>>]_vars

C3_Witness ==
  \E T \in Techniques :
     /\ Len(hist.rets[T]) >= 3
     /\ hist.rets[T][1] = TRUE
     /\ hist.rets[T][Len(hist.rets[T]) - 1] = FALSE
     /\ hist.rets[T][Len(hist.rets[T])] = FALSE

\* C4: a call of next_T, whatever it returns, leaves the pending and done
\* queues of the other techniques as they were.
C4_OtherQueuesUntouched ==
  [][\A T \in Techniques :
       Called(T) => \A U \in Techniques \ {T} : todo'[U] = todo[U] /\ done'[U] = done[U]]_vars

C4_Witness ==
  /\ done.mga # << >> /\ done.moo # << >> /\ done.mgpa # << >>
  /\ todo.mga # << >> /\ todo.mgpa # << >>
  /\ todo.moo = << >> /\ FALSE \in {hist.rets.moo[k] : k \in 1..Len(hist.rets.moo)}

\* C5: after a successful build the MGA pending queue holds the names
\* scenario_mga_0 .. scenario_mga_(iteration-1) and the MOO pending queue the
\* names scenario_moo_0 .. scenario_moo_(ncaps-1), in ascending order; a count
\* that is absent or zero leaves the queue empty.
C5_SimpleSweepNames ==
  (pc = "built" /\ Calls = 0) =>
     /\ Len(todo.mga) = Count(cfg.mga_iter)
     /\ \A i \in 0..(Count(cfg.mga_iter) - 1) :
          todo.mga[i + 1] = Some(Val(cfg.scenario) \o <<"_", "m", "g", "a", "_">> \o <<DigitChars[i + 1]>>)
     /\ Len(todo.moo) = Count(cfg.moo_ncaps)
     /\ \A i \in 0..(Count(cfg.moo_ncaps) - 1) :
          todo.moo[i + 1] = Some(Val(cfg.scenario) \o <<"_", "m", "o", "o", "_">> \o <<DigitChars[i + 1]>>)

C5_Witness ==
  /\ pc = "built" /\ Calls = 0
  /\ Len(todo.mga) = 3 /\ Len(todo.moo) = 2 /\ cfg.mgpa_ncaps = Some(0)

\* C6: after a successful build the MGPA pending queue holds, for each cap
\* i = 0 .. ncaps-1 in ascending order, the name of the cap followed by its
\* nested names for j = 0 .. iteration-1 in ascending order: ncaps*(1+iteration)
\* names, a function of the scenario name and the two counts alone.
C6_NestedSweepNames ==
  (pc = "built" /\ Calls = 0) =>
     LET n == Count(cfg.mgpa_ncaps)
         m == Count(cfg.mgpa_iter)
         cap(i) == Val(cfg.scenario) \o <<"_", "m", "o", "o", "_">> \o <<DigitChars[i + 1]>>
     IN /\ Len(todo.mgpa) = n * (1 + m)
        /\ \A i \in 0..(n - 1) :
             /\ todo.mgpa[i * (1 + m) + 1] = Some(cap(i))
             /\ \A j \in 0..(m - 1) :
                  todo.mgpa[i * (1 + m) + 1 + j + 1] =
                     Some(cap(i) \o <<"_", "m", "g", "a", "_">> \o <<DigitChars[j + 1]>>)

C6_Witness ==
  /\ pc = "built" /\ Calls = 0
  /\ cfg.mgpa_ncaps = Some(2) /\ cfg.mgpa_iter = Some(3) /\ Len(todo.mgpa) = 8



(***************************************************************************)
(* Properties of the lexer.                                                *)
(***************************************************************************)
\* The offset in the text at which item k of the input starts.
Offset(k) == Len(Render(SubSeq(input, 1, k - 1)))

\* C7: lexing never leaves the token loop before the end of the text: every
\* step stays in the loop or ends it normally, consumes at least one
\* character, and a step that records an illegal character skips exactly one.
C7_LexingRunsToTheEnd ==
  [][pc = "lex" =>
       /\ pc' \in {"lex", "lexed"}
       /\ pc' = "lex" => lexer'.lexpos > lexer.lexpos
       /\ error' # error => lexer'.lexpos = lexer.lexpos + 1]_vars

\* C8: once the lexer is past a malformed number written as the value of a
\* numeric sweep key in the block of its technique (slack=1.2.3 after --mga {),
\* no exception has left the lexer and an error span covers part of the number.
C8_MalformedNumberIsLexError ==
  \A k \in 1..(Len(input) - 1) :
     ( /\ input[k] = OpenMga /\ input[k + 1] = BadSlack
       /\ \A j \in 1..(k - 1) : input[j].kind = "sep"
       /\ lexer.lexpos >= Offset(k + 2) ) =>
          /\ exc = ""
          /\ \E j \in 1..Len(error) :
               error[j].index[1] < Offset(k + 2) /\ error[j].index[2] >= Offset(k + 1) + 6

\* The last span of a non-empty list of error spans.
Last(err) == err[Len(err)]

\* C9: an illegal character at the offset right after the end of the last error
\* span extends that span (end offset, end line and text); any other illegal
\* character starts a new one-character span.  So every span holds the text of
\* its offset range, and two successive spans are never adjacent.
C9_SpansStayWhole ==
  \A k \in 1..Len(error) :
     /\ error[k].value = Slice(text, error[k].index[1], error[k].index[2] + 1)
     /\ error[k].line[1] <= error[k].line[2]
     /\ k > 1 => error[k].index[1] > error[k - 1].index[2] + 1

C9_ContiguousErrorsMerge ==
  /\ []C9_SpansStayWhole
  /\ [][error' # error =>
          LET p      == lexer.lexpos
              joined == error # << >> /\ p = Last(error).index[2] + 1
          IN /\ Last(error').index[2] = p
             /\ Last(error').line[2] = lexer.lineno
             /\ Last(error').value[Len(Last(error').value)] = text[p + 1]
             /\ joined => /\ Len(error') = Len(error)
                          /\ Last(error').index[1] = Last(error).index[1]
                          /\ Last(error').line[1] = Last(error).line[1]
                          /\ Last(error').value = Append(Last(error).value, text[p + 1])
                          /\ SubSeq(error', 1, Len(error) - 1) = SubSeq(error, 1, Len(error) - 1)
             /\ ~joined => /\ error' = Append(error, Last(error'))
                           /\ Last(error').index[1] = p
                           /\ Last(error').line[1] = lexer.lineno
                           /\ Last(error').value = <<text[p + 1]>>]_vars

\* Two spans on different lines, the first of them merged from several characters.
C9_Witness ==
  /\ Len(error) = 2
  /\ Len(error[1].value) >= 5
  /\ error[2].line[1] > error[1].line[2]
  /\ error[2].index[2] > error[2].index[1]

\* The value a directive item stands for, as the field it sets holds it.
FieldHolds(item) ==
  LET v == item.value
      f == item.field
  IN CASE f = "dot_dat" -> cfg.dot_dat = <<abspath(v)>>
       [] f = "output" -> cfg.output = Some(abspath(v))
       [] f \in {"path_to_data", "path_to_logs"} -> cfg[f] = abspath(v)
       [] f = "myopic_periods" -> cfg.myopic_periods = int(v)
       [] f = "how_to_cite" -> cfg.how_to_cite = Some(TRUE)
       [] f \in {"saveEXCEL", "saveDUALS", "myopic", "KeepMyopicDBs", "saveTEXTFILE",
                 "version", "neos", "tee", "keepPyomoLP"} -> cfg[f] = TRUE
       [] f \in {"mga_slack", "moo_c", "mgpa_c", "mgpa_slack1", "mgpa_slack2"} ->
            cfg[f] = Some(float(v))
       [] f \in {"mga_iter", "moo_ncaps", "mgpa_ncaps", "mgpa_iter"} -> cfg[f] = Some(int(v))
       [] OTHER -> cfg[f] = Some(v)

\* The text is written from directives of the language, each in its mode,
\* separated by a blank or a line feed.
ValidText ==
  /\ \E k \in 1..Len(input) : input[k].kind = "directive"
  /\ \A k \in 1..Len(input) : input[k].kind \in {"directive", "sep"}

\* C10: lexing a text made only of valid directives raises nothing and ends
\* with every directive's field holding the directive's value and with no
\* error span.
C10_ValidDirectivesSetTheirField ==
  ValidText =>
     /\ exc = ""
     /\ pc = "lexed" =>
          /\ error = << >>
          /\ \A k \in 1..Len(input) : input[k].kind = "directive" => FieldHolds(input[k])


(***************************************************************************)
(* Properties of the lexer modes.                                          *)
(***************************************************************************)
\* The technique whose trigger --<technique> { stands at offset p, "" if none.
TriggerAt(p) ==
  IF re_key_brace(text, p, <<"-", "-", "m", "g", "a">>) # NoMatch THEN "mga"
  ELSE IF re_key_brace(text, p, <<"-", "-", "m", "o", "o">>) # NoMatch THEN "moo"
  ELSE IF re_key_brace(text, p, <<"-", "-", "m", "g", "p", "a">>) # NoMatch THEN "mgpa"
  ELSE ""

\* The mode is one of the four and the stack saves at most the default mode,
\* exactly while a sweep mode is on.
ModesAreFlat ==
  /\ lexer.lexstate \in {"INITIAL"} \cup Techniques
  /\ lexer.lexstatestack = IF lexer.lexstate = "INITIAL" THEN << >> ELSE <<"INITIAL">>

\* C11: the mode is default, MGA, MOO or MGPA and the stack holds at most the
\* saved default mode; a trigger read in default mode enters its technique's
\* mode, a } read in a sweep mode returns to default, a trigger read inside a
\* sweep mode and a } read in default mode change neither mode nor stack, and
\* nothing else changes the mode.
C11_ModesDoNotNest ==
  /\ []ModesAreFlat
  /\ [][Lexing =>
          LET p    == lexer.lexpos
              mode == lexer.lexstate
              trig == TriggerAt(p)
          IN /\ (mode = "INITIAL" /\ trig # "" /\ exc' = "") =>
                   /\ lexer'.lexstate = trig
                   /\ lexer'.lexstatestack = <<"INITIAL">>
             /\ (mode # "INITIAL" /\ CharAt(text, p) = "}") =>
                   /\ lexer'.lexstate = "INITIAL"
                   /\ lexer'.lexstatestack = << >>
             /\ (mode # "INITIAL" /\ trig # "") =>
                   /\ lexer'.lexstate = mode
                   /\ lexer'.lexstatestack = lexer.lexstatestack
             /\ (mode = "INITIAL" /\ CharAt(text, p) = "}") =>
                   /\ lexer'.lexstate = "INITIAL"
                   /\ lexer'.lexstatestack = << >>
             /\ lexer'.lexstate # mode =>
                   \/ mode = "INITIAL" /\ trig # ""
                   \/ mode # "INITIAL" /\ CharAt(text, p) = "}"]_vars

\* A trigger was read inside another technique's block as illegal characters,
\* and the block was then closed by one }.
C11_Witness ==
  /\ input = <<OpenMoo, OpenMga, CloseBrace>>
  /\ pc = "lexed"
  /\ lexer.lexstate = "INITIAL"
  /\ lexer.lexstatestack = << >>
  /\ error # << >>

\* The fields of the configuration that the keys of technique T set.
SweepFields(T) ==
  CASE T = "mga"  -> {"mga_slack", "mga_iter", "mga_method"}
    [] T = "moo"  -> {"moo_f1", "moo_f2", "moo_c", "moo_ncaps"}
    [] T = "mgpa" -> {"mgpa_f1", "mgpa_f2", "mgpa_c", "mgpa_ncaps", "mgpa_slack1",
                      "mgpa_slack2", "mgpa_iter", "mgpa_method"}

\* The item of the input that holds offset p of the text.
ItemAt(p) == input[CHOOSE k \in 1..Len(input) : Offset(k) <= p /\ p < Offset(k + 1)]

\* The techniques whose block has the key of a sweep-key item.
KeyOwners(item) ==
  CASE item \in {GoodSlack, BadSlack} -> {"mga"}
    [] item = IterationKey            -> {"mga", "mgpa"}
    [] item = NcapsKey                -> {"moo", "mgpa"}
    [] OTHER                          -> {}

DefaultModeItems == {OpenMga, OpenMoo, OpenMgpa, MethodDirective, TeeDirective}

\* The item is a default-mode directive or a key of another technique.
Foreign(item, mode) ==
  \/ item \in DefaultModeItems
  \/ KeyOwners(item) # {} /\ mode \notin KeyOwners(item)

\* C12: in technique T's sweep mode only T's fields change; every step on the
\* characters of a default-mode directive or of another technique's key
\* written inside the block leaves all fields unchanged and records the
\* character read as illegal; a sweep key read in default mode changes no
\* field of any technique.
C12_SweepModeFrame ==
  [][(Lexing /\ input \in SeqsUpTo(ModeItems, MaxItems)) =>
       LET p    == lexer.lexpos
           mode == lexer.lexstate
       IN /\ mode # "INITIAL" =>
                \A f \in DOMAIN cfg : cfg'[f] # cfg[f] => f \in SweepFields(mode)
          /\ (mode # "INITIAL" /\ Foreign(ItemAt(p), mode)) =>
                /\ cfg' = cfg
                /\ CharAt(text, p) \notin t_ANY_ignore => error' # error
          /\ (mode = "INITIAL" /\ KeyOwners(ItemAt(p)) # {}) =>
                \A T \in Techniques : \A f \in SweepFields(T) : cfg'[f] = cfg[f]]_vars


(***************************************************************************)
(* Properties of build() after lexing.                                     *)
(***************************************************************************)
\* Once the report step is over, the abort flag tells whether lexing left
\* error spans.
AbortFlagTellsErrors ==
  pc \in {"check", "populate", "convert", "built", "failed"} =>
     cfg.abort_temoa = (error # << >>)

C14_ChecksPrecedeQueuesAndExport ==
  /\ []((pc = "failed" /\ exc \in CheckMessages) =>
          /\ todo = InitQueues
          /\ done = InitQueues
          /\ exported = << >>
          /\ \A k \in 1..Len(stderr) : stderr[k].what # "converted")
  /\ [][pc = "check" => todo' = todo /\ done' = done /\ exported' = exported]_vars

\* A relational run with sweep counts and a scenario failed on the missing
\* output file; one that failed on the missing scenario name exists as well.
C14_Witness ==
  /\ pc = "failed"
  /\ exc = "Cannot locate output file"
  /\ Truthy(cfg.mga_iter) /\ Truthy(cfg.mgpa_ncaps)
  /\ is_set(cfg.scenario)
  /\ todo = InitQueues

\* The input files as lexing left them, before any conversion.
GivenFiles == input.dot_dat

\* The loop of lines 648-655 has run over all input files.
Classified ==
  \/ pc \in {"populate", "convert", "built"}
  \/ pc = "failed" /\ exc \notin {"Input file not specified.", "Cannot locate input file"}

IsFlatText(path)   == splitext(path)[2] \in {<<".", "d", "a", "t">>, <<".", "t", "x", "t">>}
IsRelational(path) ==
  splitext(path)[2] \in {<<".", "d", "b">>, <<".", "s", "q", "l", "i", "t", "e">>,
                         <<".", "s", "q", "l", "i", "t", "e", "3">>}

\* C15: once all input files are classified, the overall mode is relational
\* exactly when the last input file is relational, whatever the earlier ones.
C15_LastInputFileWins ==
  (Classified /\ \A k \in 1..Len(GivenFiles) : IsFlatText(GivenFiles[k]) \/ IsRelational(GivenFiles[k])) =>
     db_or_dat = IsRelational(GivenFiles[Len(GivenFiles)])

\* A relational file followed by a flat one: the mode is flat text.
C15_Witness ==
  /\ pc = "populate"
  /\ GivenFiles = <<DbInput, FlatInput>>
  /\ ~db_or_dat

\* What a relational run needs: an output file that exists and a scenario name.
RelationalNeedsMet ==
  /\ cfg.output # None /\ Val(cfg.output) \in disk.files
  /\ cfg.scenario # None

\* C16: in relational mode the checks pass only with the output file set and
\* on disk and the scenario name set; otherwise the check step ends build with
\* one of the three fatal errors of lines 657-664.
C16_RelationalNeedsOutputAndScenario ==
  /\ []((pc \in {"populate", "convert", "built"} /\ db_or_dat) => RelationalNeedsMet)
  /\ [][(pc = "check" /\ db_or_dat' /\ ~RelationalNeedsMet) =>
          /\ pc' = "failed"
          /\ exc' \in CheckMessages]_vars

\* A relational run that named no output file has failed on it, although its
\* input file exists and its scenario is named.
C16_Witness ==
  /\ pc = "failed"
  /\ exc = "Output file not specified."
  /\ db_or_dat
  /\ cfg.scenario # None
  /\ cfg.output = None

\* The run is in flat-text mode and every input file given is on disk.
FlatRun ==
  /\ GivenFiles # << >>
  /\ IsFlatText(GivenFiles[Len(GivenFiles)])
  /\ \A k \in 1..Len(GivenFiles) : GivenFiles[k] \in disk.files

\* C17: in flat-text mode with all input files on disk build does not fail,
\* whether or not output file and scenario name are set and whatever sweep
\* counts are present (a failure inside db_2_dat aside).
C17_FlatRunBuilds ==
  FlatRun => ~(pc = "failed" /\ exc # "ExporterError")

\* The input file at position p was not given as a .dat file.
NeedsExport(p) == splitext(GivenFiles[p])[2] # <<".", "d", "a", "t">>

\* The name of a file with its extension replaced by .dat.
AsDat(path) == splitext(path)[1] \o <<".", "d", "a", "t">>

\* The exports a build owes: one per input file not given as .dat, in list order.
OwedExports ==
  Flatten([p \in 1..Len(GivenFiles) |->
             IF NeedsExport(p) THEN << <<GivenFiles[p], AsDat(GivenFiles[p])>> >> ELSE << >>])

\* C18: after a successful build the list of input files has its length and
\* order, every entry not given as .dat is replaced by the same stem with .dat
\* and was exported exactly once, every .dat entry is unchanged and was not
\* exported, and the count reported is the number of entries exported (none
\* is reported when there is none).
C18_ConversionInPlace ==
  pc = "built" =>
     /\ Len(cfg.dot_dat) = Len(GivenFiles)
     /\ \A p \in 1..Len(GivenFiles) :
          cfg.dot_dat[p] = IF NeedsExport(p) THEN AsDat(GivenFiles[p]) ELSE GivenFiles[p]
     /\ exported = OwedExports
     /\ LET reports == SelectSeq(stderr, LAMBDA m : m.what = "converted")
        IN reports = IF OwedExports = << >> THEN << >>
                     ELSE <<[what |-> "converted", msg |-> Len(OwedExports)]>>

\* The same database was named twice and exported twice, each entry replaced.
C18_Witness ==
  /\ pc = "built"
  /\ GivenFiles = <<DbInput, DbInput>>
  /\ Len(exported) = 2
  /\ cfg.dot_dat = <<FlatInput, FlatInput>>

(***************************************************************************)
(* Properties of db_2_dat.                                                 *)
(***************************************************************************)
\* The table of entry i of table_list exists in the database read.
TableExists(i) == conv.db.tables[table_list[i].t_name] # None

\* The rows of the table of entry i that pass the filter of the entry: all
\* rows without a flag, the rows whose flag is one of the entry's otherwise.
FilteredRows(i) ==
  SelectSeq(Val(conv.db.tables[table_list[i].t_name]),
            LAMBDA r : table_list[i].t_flag.kind = "none" \/ r.flag \in table_list[i].t_flag.values)

HasSection(i) == TableExists(i) /\ FilteredRows(i) # << >>

\* The header "<kind> <name> := " of entry i, named by the destination name
\* of a filtered entry and by the table name otherwise.
HeaderText(i) ==
  (IF table_list[i].t_type = "set" THEN <<"s", "e", "t", " ">> ELSE <<"p", "a", "r", "a", "m", " ">>)
  \o (IF table_list[i].t_flag.kind = "none" THEN table_list[i].t_name ELSE table_list[i].t_dtname)
  \o <<" ", ":", "=", " ", "\n">>

\* A section as header, one mark per row, terminator.
SectionShape(i) ==
  <<HeaderText(i)>> \o [k \in 1..Len(FilteredRows(i)) |-> <<"row">>] \o <<<<";", "\n", "\n">>>>

\* What was written after 'data ;', every row replaced by a mark.
WrittenShape ==
  [k \in 1..(Len(conv.f) - 1) |->
     IF conv.f[k + 1].kind = "row" THEN <<"row">> ELSE conv.f[k + 1].text]

\* The loop over table_list is over and nothing was written after it.
TablesWritten == pc = "db_2_dat" /\ conv.table = Len(table_list) + 1

\* C19: after the loop over the table specifications the file holds, after
\* its first line, the sections of exactly the entries whose table exists and
\* whose filtered query has a row, in the order of the entries, each with one
\* line per row; every other entry has written nothing.
C19_SectionsOfNonEmptyTables ==
  TablesWritten =>
     WrittenShape = Flatten([i \in 1..Len(table_list) |->
                               IF HasSection(i) THEN SectionShape(i) ELSE << >>])

\* A database where one entry has a section, another entry of the same table
\* filters every row out, one table is missing and one table is empty.
C19_Witness ==
  /\ TablesWritten
  /\ HasSection(1) /\ TableExists(2) /\ ~HasSection(2)
  /\ conv.db.tables[technologies] = None
  /\ conv.db.tables[DiscreteCapacity] = Some(<< >>)
  /\ HasSection(6)
  /\ Len(conv.f) = 7

\* No field of the row is left out of both portions or put into both.
NoFieldLost(line, k) == before_comments(line, k) \o after_comments(line, k) = line

\* The row is split at index k: k leading fields, the others trailing.
SplitAt(line, k) ==
  /\ before_comments(line, k) = py_slice(line, 0, k)
  /\ after_comments(line, k) = py_slice(line, k, Len(line))

\* C20: for every entry with a comment index k > 0 that has written its
\* section, every row is split at index k into the data portion and the
\* comment portion, and each field of the row is in exactly one of the two.
C20_RowSplitLosesNoField ==
  TablesWritten =>
     \A i \in 1..Len(table_list) :
        (table_list[i].t_index > 0 /\ HasSection(i)) =>
           \A r \in 1..Len(FilteredRows(i)) :
              /\ NoFieldLost(FilteredRows(i)[r].line, table_list[i].t_index)
              /\ SplitAt(FilteredRows(i)[r].line, table_list[i].t_index)

\* The number of headers written with the text given.
Headers(chars) == Cardinality({k \in 1..Len(conv.f) : conv.f[k] = Chunk("header", chars)})

\* One of the two techniques that read the sweep sections asks for method m.
Requested(M) == cfg.mga_method \in M \/ cfg.mgpa_method \in M

ListMethods  == {Some(<<"i", "n", "t", "e", "g", "e", "r">>), Some(<<"r", "a", "n", "d", "o", "m">>)}
SectorMethod == {Some(<<"n", "o", "r", "m", "a", "l", "i", "z", "e", "d">>)}

\* The sweep sections were written without an error.
SweepWritten == pc = "db_2_dat" /\ conv.table = Len(table_list) + 2

\* C21: after the sweep sections are written, the file holds exactly one
\* tech_mga section when MGA or MGPA asks for the integer or random method
\* and none otherwise, and exactly one tech_<sector> section for each sector
\* of the technologies table when MGA or MGPA asks for the normalized method
\* and none otherwise, whatever the two methods are.
C21_OneSweepSectionPerRequest ==
  SweepWritten =>
     /\ Headers(<<"s", "e", "t", " ">> \o tech_mga \o <<" ", ":", "=", "\n">>)
          = (IF Requested(ListMethods) THEN 1 ELSE 0)
     /\ \A s \in Sectors :
          Headers(<<"s", "e", "t", " ", "t", "e", "c", "h", "_">> \o s \o <<" ", ":", "=", "\n">>)
            = (IF Requested(SectorMethod) THEN 1 ELSE 0)

\* The rows stored for another scenario than the one configured: every row
\* when no scenario name is configured.
OtherRows(rows) == SelectSeq(rows, LAMBDA r : Some(r.scenario) # cfg.scenario)

\* C22: a step of an export leaves every table it reads as it was; it changes
\* the stored output rows only in a myopic run, and then each output table
\* either keeps its rows or loses exactly the rows whose scenario is the
\* configured scenario name; when a myopic export has returned, no output row
\* of the configured scenario name is left.
C22_CleanupDeletesOnlyTheScenario ==
  [][ Exporting =>
        /\ conv'.db.tables = conv.db.tables
        /\ ~cfg.myopic => conv'.db = conv.db
        /\ \A n \in DOMAIN conv.db.outputs :
              \/ conv'.db.outputs[n] = conv.db.outputs[n]
              \/ /\ conv.db.outputs[n] # None
                 /\ conv'.db.outputs[n] = Some(OtherRows(Val(conv.db.outputs[n])))
        /\ (pc' = "exported" /\ cfg.myopic) =>
              \A n \in DOMAIN conv.db.outputs :
                 /\ conv'.db.outputs[n] # None
                 /\ OtherRows(Val(conv'.db.outputs[n])) = Val(conv'.db.outputs[n]) ]_vars

(***************************************************************************)
(* Properties of the line counter.                                         *)
(***************************************************************************)
\* Position k of the character sequence s ends a line break: a line feed,
\* or a carriage return that no line feed follows.
EndsLine(s, k) ==
  \/ s[k] = "\n"
  \/ s[k] = "\r" /\ (k = Len(s) \/ s[k + 1] # "\n")

\* The line breaks among the first n characters of s.
LineBreaks(s, n) == Cardinality({k \in 1..n : EndsLine(s, k)})

\* The 1-based line of the character at offset p of the text read.
LineOf(p) == 1 + LineBreaks(text, p)

\* C23: when the text has been read, the line counter is one more than the
\* number of line breaks of the file, LF, CRLF and CR each counting once, and
\* every error span carries the lines of its first and last character.
C23_LineCounterCountsBreaks ==
  pc = "lexed" =>
     /\ lexer.lineno = 1 + LineBreaks(Render(input), Len(Render(input)))
     /\ \A k \in 1..Len(error) :
          /\ error[k].line[1] = LineOf(error[k].index[1])
          /\ error[k].line[2] = LineOf(error[k].index[2])

(***************************************************************************)
(* Properties of two builds.                                               *)
(***************************************************************************)
\* The second build of the driver has ended.
BuiltTwice == pc \in {"lexed", "failed"} /\ Len(prev.got) = 1

\* The two builds ended alike, with the same configuration and error spans.
SameOutcome ==
  /\ pc = prev.got[1].pc
  /\ cfg = prev.got[1].cfg
  /\ error = prev.got[1].error

\* The text built first and the text built second differ in the separator
\* of one directive only.
SeparatorTwin ==
  \E k \in 1..Len(input) :
     /\ Len(prev.got[1].input) = Len(input)
     /\ \A j \in 1..Len(input) : j # k => prev.got[1].input[j] = input[j]
     /\ input[k].kind = "directive"
     /\ input[k].field = prev.got[1].input[k].field
     /\ input[k].value = prev.got[1].input[k].value
     /\ input[k] # prev.got[1].input[k]

\* C24: a text whose valued directive has a blank between key and value
\* builds to the same configuration and the same error spans as the text
\* with "=" in its place.
C24_BlankAsSeparator ==
  (BuiltTwice /\ SeparatorTwin) => SameOutcome

\* The fields of the configuration but the list of input files.
Scalars(c) == [f \in DOMAIN c \ {"dot_dat"} |-> c[f]]

\* C25: two texts made of the same distinct default-mode directives in two
\* orders, separated by blanks on one line or by line breaks, build to the
\* same scalar fields of the configuration, and both without an error span.
C25_DirectiveOrderIsFree ==
  (BuiltTwice /\ <<prev.got[1].input, input>> \in OrderPairs) =>
     /\ pc = "lexed" /\ prev.got[1].pc = "lexed"
     /\ Scalars(cfg) = Scalars(prev.got[1].cfg)
     /\ error = << >> /\ prev.got[1].error = << >>

(***************************************************************************)
(* Properties of the characters no directive takes.                        *)
(***************************************************************************)
\* The rule that runs at lexpos, "" when no rule matches there.
RuleAt ==
  IF Matching = {} THEN ""
  ELSE lexre[lexer.lexstate][CHOOSE k \in Matching : \A j \in Matching : k <= j]

\* The characters from lexpos up to the new lexpos.
Consumed == Slice(text, lexer.lexpos, lexer'.lexpos)

\* The step skips one blank or tab.
SkipsBlank == Consumed \in {<<" ">>, <<"\t">>}

\* The step skips line breaks only.
SkipsLineBreaks == \A k \in 1..Len(Consumed) : Consumed[k] \in {"\n", "\r"}

\* The step skips a comment: from "#" up to the end of its line, and no
\* character of another line.
SkipsComment ==
  /\ Consumed[1] = "#"
  /\ \A k \in 1..Len(Consumed) : Consumed[k] \notin {"\n", "\r"}
  /\ lexer'.lexpos = Len(text) \/ CharAt(text, lexer'.lexpos) \in {"\n", "\r"}

\* The step records the one character it skips in the last error span.
RecordsCharacter ==
  /\ Len(Consumed) = 1
  /\ error' # << >>
  /\ error'[Len(error')].index[2] = lexer.lexpos
  /\ error'[Len(error')].value[Len(error'[Len(error')].value)] = Consumed[1]

\* The step runs the rule of a directive, of a sweep key or of a brace.
TakesDirective ==
  /\ CharAt(text, lexer.lexpos) \notin t_ANY_ignore
  /\ RuleAt \notin {"", "t_ANY_COMMENT", "t_ANY_newline"}

\* C26: every step of the token loop that moves over characters either runs
\* the rule of a directive on them, or skips one blank or tab, or line breaks,
\* or a comment that ends at the end of its line, or records the character
\* it skips in an error span.
C26_NothingDroppedSilently ==
  [][ (Lexing /\ lexer'.lexpos > lexer.lexpos) =>
         \/ TakesDirective
         \/ SkipsBlank
         \/ SkipsLineBreaks
         \/ SkipsComment
         \/ RecordsCharacter ]_vars

(***************************************************************************)
(* Properties of a conversion that fails.                                  *)
(***************************************************************************)
\* A call of db_2_dat has raised; it is the last of the calls made.
ExportFailed == pc = "failed" /\ exc = "ExporterError"

\* The input files up to position p that are not given as .dat.
Rank(p) == Cardinality({q \in 1..p : NeedsExport(q)})

\* C27: when the n-th call of the exporter raises, the file written by each
\* of the n - 1 calls before it still holds the whole export of its database,
\* the entries of those calls are replaced by their .dat names, and every
\* other entry of the list of input files is as it was given.
C27_FailedExportSparesEarlierFiles ==
  ExportFailed =>
     /\ \A j \in 1..(Len(exported) - 1) :
          /\ exported[j][2] \in disk.files
          /\ disk.data[exported[j][2]] = Export(exported[j][1])
     /\ Len(cfg.dot_dat) = Len(GivenFiles)
     /\ \A p \in 1..Len(GivenFiles) :
          cfg.dot_dat[p] = IF NeedsExport(p) /\ Rank(p) < Len(exported)
                           THEN AsDat(GivenFiles[p]) ELSE GivenFiles[p]

(***************************************************************************)
(* Properties of the sweep records after lexing.                           *)
(***************************************************************************)
\* No field of the sweep record of technique T is set.
FullyUnset(T) == \A f \in SweepFields(T) : cfg[f] = None

\* The record of T has a method and it is set; the record of MOO has no
\* method field.
MethodSet(T) ==
  CASE T = "mga"  -> cfg.mga_method # None
    [] T = "mgpa" -> cfg.mgpa_method # None
    [] OTHER      -> FALSE

\* C28: when the text has been read, the sweep record of each technique is
\* either fully unset or has its method set.
C28_SweepSpecHasMethod ==
  pc = "lexed" => \A T \in Techniques : FullyUnset(T) \/ MethodSet(T)

(***************************************************************************)
(* Properties of a driver that calls until every technique is exhausted.   *)
(***************************************************************************)
\* The calls that returned True, and the names pending when build returned.
TrueResults ==
  Cardinality({<<T, k>> \in Techniques \X (1..MaxCalls) : k <= Len(hist.rets[T]) /\ hist.rets[T][k]})
PendingAtBuild == Len(hist.enq.mga) + Len(hist.enq.moo) + Len(hist.enq.mgpa)

\* Every technique has returned False.
AllExhausted == \A T \in Techniques : Exhausted(T)

\* C29: once build has returned, a driver that goes on calling every
\* technique gets False from each of them at last; when it has, the calls that
\* returned True are as many as the names pending when build returned; and no
\* call makes a pending queue longer.
C29_DriverReachesExhaustion ==
  /\ (pc = "built") ~> AllExhausted
  /\ [](AllExhausted => TrueResults = PendingAtBuild)
  /\ [][\A T \in Techniques : Len(todo'[T]) <= Len(todo[T]) \/ pc # "built"]_vars

\* MGA and MOO had a name each; the driver took them in turn.
C29_Witness ==
  /\ AllExhausted
  /\ hist.rets.moo = <<TRUE, FALSE>>
  /\ hist.rets.mga = <<TRUE, FALSE>>
  /\ hist.rets.mgpa = <<FALSE>>
  /\ todo = InitQueues

(***************************************************************************)
(* Properties of the destination names.                                    *)
(***************************************************************************)
\* The headers written, in the order of the file.
HeadersWritten == SelectSeq(conv.f, LAMBDA c : c.kind = "header")

\* The destination name of a header "set <name> :=..." or "param <name> :=...".
DestinationOf(h) ==
  LET rest == SubSeq(h.text, FirstIndex(h.text, " ") + 1, Len(h.text))
  IN SubSeq(rest, 1, FirstIndex(rest, " ") - 1)

\* C30: the file of an export never holds two sections of the same
\* destination name, whether the names come from table_list, from the
\* tech_mga section or from the sectors: an export that would write a second
\* section of a name ends with an error before it writes it.
C30_DestinationNamesUnique ==
  \A i, j \in 1..Len(HeadersWritten) :
     i # j => DestinationOf(HeadersWritten[i]) # DestinationOf(HeadersWritten[j])

(***************************************************************************)
(* The names of the three pending queues taken together.                   *)
(***************************************************************************)
\* The places of the pending queues: technique and position.
Pending == UNION {{<<T, k>> : k \in 1..Len(todo[T])} : T \in Techniques}

\* C31: after build the names held in the three pending queues are pairwise
\* distinct, within the queue of one technique and across techniques: no name
\* enqueued for MGPA equals a name enqueued for MOO.
C31_QueuedNamesDistinct ==
  (pc = "built" /\ Calls = 0) =>
     \A p \in Pending, q \in Pending :
        p # q => todo[p[1]][p[2]] # todo[q[1]][q[2]]

\* The last n names of a sequence.
Suffix(q, n) == SubSeq(q, Len(q) - n + 1, Len(q))

\* C32: under any interleaving of the calls of next_mga, next_moo and
\* next_mgpa, for each technique the number of names in its pending queue plus
\* the number in its done queue is the number build enqueued for it, and its
\* pending queue is a suffix of the sequence build enqueued.
C32_QueuesConserveNames ==
  pc = "built" =>
     \A T \in Techniques :
        /\ Len(todo[T]) + Len(done[T]) = Len(hist.enq[T])
        /\ Len(todo[T]) <= Len(hist.enq[T])
        /\ todo[T] = Suffix(hist.enq[T], Len(todo[T]))

\* The three techniques advanced in turn, two of them part-way.
C32_Witness ==
  /\ pc = "built"
  /\ Len(done.mga) = 1 /\ todo.mga # << >>
  /\ Len(done.mgpa) = 2 /\ todo.mgpa # << >>
  /\ Len(done.moo) = 1 /\ todo.moo = << >>
  /\ hist.rets.moo = <<TRUE, FALSE>>

\* The names of a queue.
Names(q) == {q[k] : k \in 1..Len(q)}

\* C33: under any interleaving of the calls of next_mga, next_moo and
\* next_mgpa, every name in the done queue of technique T is the base scenario
\* name or a name build enqueued for T: a done queue never receives a name
\* generated for another technique.
C33_DoneHoldsOwnNames ==
  pc = "built" =>
     \A T \in Techniques : Names(done[T]) \subseteq {hist.base} \cup Names(hist.enq[T])

(***************************************************************************)
(* The shape of the list of error spans.                                   *)
(***************************************************************************)
\* The offsets a span covers.
Covered(span) == span.index[1]..span.index[2]

\* C34: at every point of lexing the list of error spans is well formed: the
\* spans are in strictly increasing offset order, each span has its start
\* offset <= its end offset and its start line <= its end line, the length of
\* its text is end offset - start offset + 1, and two successive spans are
\* separated by at least one character that is part of no span.
C34_ErrorSpansWellFormed ==
  /\ \A k \in 1..Len(error) :
        /\ error[k].index[1] <= error[k].index[2]
        /\ error[k].line[1] <= error[k].line[2]
        /\ Len(error[k].value) = error[k].index[2] - error[k].index[1] + 1
  /\ \A i, j \in 1..Len(error) : i < j => error[i].index[2] < error[j].index[1]
  /\ \A k \in 2..Len(error) :
        \E p \in (error[k - 1].index[2] + 1)..(error[k].index[1] - 1) :
           \A j \in 1..Len(error) : p \notin Covered(error[j])

\* Lexing is under way with two spans recorded, the second one merged from
\* several characters and growing.
C34_Witness ==
  /\ pc = "lex" /\ lexer.lexpos < Len(text)
  /\ Len(error) = 2
  /\ Len(error[1].value) = 1
  /\ Len(error[2].value) >= 2
  /\ error[2].index[2] = lexer.lexpos - 1

(***************************************************************************)
(* Properties of two threads calling next_* on one object.                 *)
(***************************************************************************)
\* The calls of technique T that took a name: those that returned True, and
\* those under way that hold the name they got.
Takers(T, name) ==
  {<<t, k>> \in Threads \X (1..MaxCalls) :
      k <= Len(thread[t].took) /\ thread[t].took[k] = <<T, name>>}
  \cup {<<t, 0>> : t \in {u \in Threads : At(u, "set") /\ thread[u].call.T = T
                                                /\ thread[u].call.item = name}}

\* The names taken from the pending queue of T since build.
Removed(T) == SubSeq(hist.enq[T], 1, Len(hist.enq[T]) - Len(todo[T]))

\* The True results of the calls of technique T.
TrueReturns(T) == Cardinality({k \in 1..Len(hist.rets[T]) : hist.rets[T][k]})

\* No call of technique T is under way.
Quiet(T) == \A t \in Threads : At(t, "idle") \/ thread[t].call.T # T

\* C35: when two driver threads call next_T on the same technique
\* concurrently, every call returns (no caller waits forever on an empty
\* pending queue), each pending name becomes the current scenario of exactly
\* one call, and the number of True results is the number of names removed
\* from the pending queue.
C35_ConcurrentCallsReturn ==
  /\ \A t \in Threads : (~At(t, "idle")) ~> At(t, "idle")
  /\ [](\A T \in Techniques :
          /\ \A k \in 1..Len(Removed(T)) : Cardinality(Takers(T, Removed(T)[k])) = 1
          /\ Quiet(T) => TrueReturns(T) = Len(Removed(T)))

(***************************************************************************)
(* Properties of an export made twice.                                     *)
(***************************************************************************)
\* The second export has ended.
ExportedTwice == pc \in {"exported", "failed"} /\ Len(prev.got) = 1

\* C36: the export is deterministic: two exports of the same database with
\* the same options end the same way and write the same file, the order of
\* the sector sections of method normalized included.
C36_ExportIsDeterministic ==
  ExportedTwice => Exported = prev.got[1]

(***************************************************************************)
(* Properties of the suppressed standard output.                           *)
(***************************************************************************)
\* build() has ended: it returned, or an exception left it.
Terminated == pc \in {"built", "failed"}

\* C37: whenever build terminates, by returning or by failing during a
\* conversion, sys.stdout, which is redirected around the calls of db_2_dat,
\* is the original stream again and the file opened on os.devnull is closed.
C37_StdoutRestored ==
  Terminated => stdout.stream = "__stdout__" /\ stdout.sink # "open"

(***************************************************************************)
(* Properties of the files the conversions write.                          *)
(***************************************************************************)
\* The entries of the list of input files as given.
GivenEntries == {GivenFiles[p] : p \in 1..Len(GivenFiles)}

\* C38: a conversion never writes over a file that is an entry of the list of
\* input files or the output of an earlier conversion of the same build: the
\* calls made for distinct entries write distinct .dat files, and no call
\* writes a file that is a .dat entry of the list.
C38_ConversionWritesFreshFile ==
  /\ \A i, j \in 1..Len(exported) :
        (i < j /\ exported[i][1] # exported[j][1]) => exported[i][2] # exported[j][2]
  /\ \A j \in 1..Len(exported) : exported[j][2] \notin GivenEntries
====
